---------------------------- MODULE Spec2Model ----------------------------
(***************************************************************************)
(* Model of the snobbots backend: the RAG routes (app/RAG/routes.py), the  *)
(* ingestion orchestrator (app/RAG/pdf_processor.py), the retrieval and    *)
(* generation engine (app/RAG/rag_helper.py) and the token usage ledger    *)
(* (app/RAG/token_tracker.py).                                             *)
(*                                                                         *)
(* Python strings are sequences of one-character strings, so that lower(), *)
(* strip() and replace(" ", "_") are computed rather than assumed.         *)
(* The hosted services (Pinecone, OpenAI, Supabase/Postgres) are state     *)
(* variables; what they answer that the code cannot control (a failure,    *)
(* a token count, a random suffix, the row a SELECT lists first) is a      *)
(* nondeterministic choice of the action that makes the call.              *)
(***************************************************************************)
EXTENDS Integers, Sequences, FiniteSets, TLC

VARIABLES
    chatbot_configs,   \* Supabase table chatbot_configs: a set of rows
    bot_token_usage,   \* Supabase table bot_token_usage: a set of rows (with ids)
    indexes,           \* Pinecone: the names pc.list_indexes().names() returns
    vectors,           \* Pinecone: the stored vector records of all indexes
    pc,                \* per worker thread: the position inside its handler
    loc,               \* per worker thread: the handler's local variables
    last               \* the request handled last, its response, its upstream calls

vars == <<chatbot_configs, bot_token_usage, indexes, vectors, pc, loc, last>>

----------------------------------------------------------------------------
(* Bounds of the model *)

\* No more than this many vector records are kept in the model's Pinecone.
MaxVectors == 3
\* No more than this many tokens are charged to one ledger counter.
MaxTokens == 4

(* Program constants *)

MaxBots == 5
ChunkSize == 1000
ChunkOverlap == 200
TopK == 3

----------------------------------------------------------------------------
(* Strings *)

LowerChar(c) ==
    CASE c = "A" -> "a"
      [] c = "B" -> "b"
      [] OTHER -> c

\* str.lower()
StrLower(s) == [i \in 1..Len(s) |-> LowerChar(s[i])]

\* str.replace(" ", "_")
StrReplaceSpace(s) == [i \in 1..Len(s) |-> IF s[i] = " " THEN "_" ELSE s[i]]

\* The characters str.strip() removes (of those that occur here)
Whitespace == {" ", "\t"}

RECURSIVE LStrip(_)
LStrip(s) == IF s # <<>> /\ Head(s) \in Whitespace THEN LStrip(Tail(s)) ELSE s

RECURSIVE RStrip(_)
RStrip(s) ==
    IF s # <<>> /\ s[Len(s)] \in Whitespace THEN RStrip(SubSeq(s, 1, Len(s) - 1)) ELSE s

\* str.strip()
StrStrip(s) == RStrip(LStrip(s))

\* f"snobbots-{user_id.lower().replace(' ', '_')}"
IndexName(user_id) == <<"snobbots-">> \o StrReplaceSpace(StrLower(user_id))

\* Mutant: the bot title is ignored and every bot writes to one namespace.
NamespaceShared(chatbot_title) == <<"_">>

\* Mutant: the title keeps its letter case.
NamespaceKeepCase(chatbot_title) == StrReplaceSpace(StrStrip(chatbot_title))

\* chatbot_title.strip().lower().replace(" ", "_")
Namespace(chatbot_title) == StrReplaceSpace(StrLower(StrStrip(chatbot_title)))

\* flush_namespace: the title was lower-cased by the route; strip().replace(" ", "_")
FlushNamespaceOf(chatbot_title) == StrReplaceSpace(StrStrip(chatbot_title))

----------------------------------------------------------------------------
(* The inputs of the requests *)

\* Tenants: Supabase user ids.
Users == {<<"u", "1">>, <<"u", "2">>}

\* chatbot_title as sent by clients.
Titles == {<<"B">>, <<"a", " ", "b">>, <<"a", "_", "b">>}

\* The (tenant, title) pairs the RAG requests are drawn from.
Bots ==
    {<<u, t>> \in Users \X Titles : t = <<"B">> \/ (u = <<"u", "1">> /\ t = <<"a", " ", "b">>)}

\* A text is a document name and its length in characters (no separators).
\* Every bot uploads documents of its own, named after the bot: a chunk text found
\* anywhere tells which bot it was ingested for.
NoText == [doc |-> <<>>, len |-> 0]
TextLens == {0, 600, 1500}
ShortLens == {0, 600}
RawTexts(user_id, chatbot_title) ==
    {[doc |-> <<user_id, chatbot_title>>, len |-> n] : n \in TextLens}

\* Absent optional arguments (None) and the empty values Python treats alike.
NoName == <<>>
NoQa == [kind |-> "none", items |-> <<>>]

\* QA items: an object with both keys, an object whose answer is blank, a string.
QaGood == [is_dict |-> TRUE, keys |-> {"question", "answer"},
           question |-> <<"q">>, answer |-> <<"a">>]
QaBlank == [is_dict |-> TRUE, keys |-> {"question", "answer"},
            question |-> <<"q">>, answer |-> <<" ">>]
QaString == [is_dict |-> FALSE, keys |-> {}, question |-> <<>>, answer |-> <<>>]

\* qa_json arguments: a list, a JSON string of a list, an unparsable string.
QaLists ==
    {[kind |-> "list", items |-> <<QaGood>>],
     [kind |-> "list", items |-> <<QaGood, QaBlank>>]}

Queries == {"query"}

\* usage of one chat completion
ChatUsages == {[prompt_tokens |-> 2, completion_tokens |-> 1, total_tokens |-> 3]}

\* uuid.uuid4().hex[:8]: 32 random bits, modelled as a value not seen before
UuidSuffixes == 1..8

----------------------------------------------------------------------------
(* app/RAG/pdf_processor.py *)

Min(a, b) == IF a < b THEN a ELSE b

\* The number of windows RecursiveCharacterTextSplitter cuts a text of n characters
\* without separators into: windows of chunk_size that start chunk_size - overlap apart.
RECURSIVE WindowCount(_)
WindowCount(n) ==
    IF n <= 0 THEN 0
    ELSE IF n <= ChunkSize THEN 1
    ELSE 1 + WindowCount(n - (ChunkSize - ChunkOverlap))

\* text_splitter.split_text(text)
SplitText(text) ==
    [k \in 1..WindowCount(text.len) |->
        [doc |-> text.doc,
         from |-> (k - 1) * (ChunkSize - ChunkOverlap),
         to |-> Min((k - 1) * (ChunkSize - ChunkOverlap) + ChunkSize, text.len)]]

LowerWord(w) ==
    CASE w = "PDF" -> "pdf"
      [] w = "TXT" -> "txt"
      [] w = "DOCX" -> "docx"
      [] OTHER -> w

\* filename.lower().split(".")[-1]; a filename is the sequence of its dot-separated parts
FileExt(filename) == LowerWord(filename[Len(filename)])

\* Case 1: the chunks of an uploaded file
FileChunks(filename, file_bytes) ==
    [k \in 1..Len(SplitText(file_bytes)) |->
        [text |-> SplitText(file_bytes)[k], source |-> filename]]

\* Case 2: the chunks of raw text
RawChunks(raw_text, source_type) ==
    [k \in 1..Len(SplitText(raw_text)) |->
        [text |-> SplitText(raw_text)[k],
         source |-> IF source_type # NoName THEN source_type ELSE <<"raw_text">>]]

\* json.loads / the list itself
QaPairs(qa_json) == qa_json.items

QaValid(qa_pairs) ==
    \A k \in 1..Len(qa_pairs) :
        qa_pairs[k].is_dict /\ {"question", "answer"} \subseteq qa_pairs[k].keys

\* Mutant: every pair becomes a chunk, blank or not.
QaChunksKeepBlank(qa_pairs) ==
    [k \in 1..Len(qa_pairs) |->
        [text |-> [q |-> StrStrip(qa_pairs[k].question), a |-> StrStrip(qa_pairs[k].answer)],
         source |-> <<"qa_json">>]]

\* Case 3: one chunk per pair whose stripped question and answer are not empty
RECURSIVE QaChunks(_)
QaChunks(qa_pairs) ==
    IF qa_pairs = <<>> THEN <<>>
    ELSE LET q == StrStrip(Head(qa_pairs).question)
             a == StrStrip(Head(qa_pairs).answer)
         IN  (IF q # <<>> /\ a # <<>>
              THEN <<[text |-> [q |-> q, a |-> a], source |-> <<"qa_json">>]>>
              ELSE <<>>) \o QaChunks(Tail(qa_pairs))

\* Mutant: the QA list is not validated before the chunks are built.
CollectErrorFileOnly(filename, file_bytes, qa_json) ==
    IF file_bytes.len > 0 /\ filename # NoName
          /\ FileExt(filename) \notin {"pdf", "docx", "txt"}
    THEN "ValueError: Unsupported file type"
    ELSE "none"

\* The error raised while the chunks are collected ("none": no error).
CollectError(filename, file_bytes, qa_json) ==
    IF file_bytes.len > 0 /\ filename # NoName
          /\ FileExt(filename) \notin {"pdf", "docx", "txt"}
    THEN "ValueError: Unsupported file type"
    ELSE IF qa_json.kind = "none" \/ (qa_json.kind = "list" /\ qa_json.items = <<>>)
    THEN "none"
    ELSE IF qa_json.kind = "bad_string"
    THEN "ValueError: Invalid QA JSON string format"
    ELSE IF qa_json.kind \notin {"list", "string"}
    THEN "ValueError: qa_json must be a JSON string or a list"
    ELSE IF ~QaValid(QaPairs(qa_json))
    THEN "ValueError: qa_json must be a list of {question, answer} objects"
    ELSE "none"

\* chunks, in the order the three cases extend the list
CollectChunks(filename, file_bytes, raw_text, qa_json, source_type) ==
    (IF file_bytes.len > 0 /\ filename # NoName
     THEN FileChunks(filename, file_bytes) ELSE <<>>)
    \o (IF raw_text.len > 0 THEN RawChunks(raw_text, source_type) ELSE <<>>)
    \o (IF qa_json.kind = "none" \/ qa_json.items = <<>>
        THEN <<>> ELSE QaChunks(QaPairs(qa_json)))

\* The vector records of the chunks; sfx[i] is the random suffix of chunk i.
BuildVectors(user_id, index_name, namespace, chunks, sfx) ==
    {[index |-> index_name,
      namespace |-> namespace,
      id |-> <<user_id, chunks[i].source, i - 1, sfx[i]>>,
      chunk_text |-> chunks[i].text,
      source |-> chunks[i].source,
      user_id |-> user_id] : i \in 1..Len(chunks)}

\* Mutant: the upsert leaves out the namespace (as the legacy pipeline does), so the
\* records land in the index's default namespace.
UpsertDefaultNamespace(stored, new) ==
    LET moved == {[v EXCEPT !.namespace = <<>>] : v \in new}
    IN  {v \in stored :
            ~\E n \in moved : n.index = v.index /\ n.namespace = v.namespace /\ n.id = v.id}
        \cup moved

\* index.upsert(vectors=vectors, namespace=namespace): insert or overwrite by id
Upsert(stored, new) ==
    {v \in stored :
        ~\E n \in new : n.index = v.index /\ n.namespace = v.namespace /\ n.id = v.id}
    \cup new

\* Mutant: the records embedded before the failing call are upserted all the same.
UpsertEmbeddedSoFar(vecs, new, at) == Upsert(vecs, {v \in new : v.id[3] < at - 1})

\* The embedding call for chunk `at` raises inside the loop: the exception leaves the
\* function before index.upsert is reached and the records built so far are dropped.
AfterEmbeddingFailure(vecs, new, at) == vecs

\* The random suffix of a new record: the first one no stored record carries.
FreshSuffix(vecs) ==
    CHOOSE x \in UuidSuffixes :
        /\ \A v \in vecs : v.id[4] # x
        /\ \A y \in UuidSuffixes : y < x => \E v \in vecs : v.id[4] = y

\* What the services answer during one ingestion of n chunks: whether an embedding
\* call (the one for chunk `at`) or the upsert fails, and the random suffixes.
IngestEnvs(vecs, n) ==
    [fail : {"none", "upsert"}, at : {0}, sfx : {[i \in 1..n |-> FreshSuffix(vecs)]}]
    \cup [fail : {"embedding"}, at : 1..n, sfx : {[i \in 1..n |-> FreshSuffix(vecs)]}]

\* process_and_index_data: the outcome, given the Pinecone state (idx, vecs) and env.
\*   raised: the exception that leaves the function ("none": it returns result)
process_and_index_data(idx, vecs, user_id, filename, file_bytes, raw_text, qa_json, source_type, chatbot_title, env) ==
    LET INDEX_NAME == IndexName(user_id)
        idx1 == idx \cup {INDEX_NAME}
        namespace == Namespace(chatbot_title)
        err == CollectError(filename, file_bytes, qa_json)
        chunks == CollectChunks(filename, file_bytes, raw_text, qa_json, source_type)
        new == BuildVectors(user_id, INDEX_NAME, namespace, chunks, env.sfx)
        out(raised, vecs1, embeds, upserts, result) ==
            [indexes |-> idx1, vectors |-> vecs1, raised |-> raised,
             embed_calls |-> embeds, upsert_calls |-> upserts, chunks |-> chunks,
             result |-> result]
    IN  IF chatbot_title = <<>>
        THEN [out("ValueError: chatbot_title is required", vecs, 0, 0, <<>>)
                 EXCEPT !.chunks = <<>>]
        ELSE IF err # "none"
        THEN [out(err, vecs, 0, 0, <<>>) EXCEPT !.chunks = <<>>]
        ELSE IF chunks = <<>>
        THEN out("ValueError: No valid input provided", vecs, 0, 0, <<>>)
        ELSE IF env.fail = "embedding"
        THEN out("UpstreamError: embedding", AfterEmbeddingFailure(vecs, new, env.at),
                 env.at, 0, <<>>)
        ELSE IF env.fail = "upsert"
        THEN out("UpstreamError: upsert", vecs, Len(chunks), 1, <<>>)
        ELSE out("none", Upsert(vecs, new), Len(chunks), 1,
                 [chunks_indexed |-> Len(chunks), index_name |-> INDEX_NAME,
                  namespace |-> namespace])


----------------------------------------------------------------------------
(* app/RAG/RAG_pipeline.py *)

\* The vector records of the legacy pipeline: the id is f"{user_id}_{filename}_{i}",
\* without a random suffix (0 in its place); no namespace is given to the upsert, so
\* they land in the default namespace "".
LegacyVectors(user_id, index_name, filename, chunks) ==
    {[index |-> index_name,
      namespace |-> <<>>,
      id |-> <<user_id, filename, i - 1, 0>>,
      chunk_text |-> chunks[i],
      source |-> filename,
      user_id |-> user_id] : i \in 1..Len(chunks)}

\* process_and_index_pdf: the outcome, given the Pinecone state (idx, vecs) and env.
process_and_index_pdf(idx, vecs, file_bytes, filename, user_id, env) ==
    LET INDEX_NAME == IndexName(user_id)
        chunks == SplitText(file_bytes)
        new == LegacyVectors(user_id, INDEX_NAME, filename, chunks)
        out(raised, vecs1, embeds, upserts, result) ==
            [indexes |-> idx \cup {INDEX_NAME}, vectors |-> vecs1, raised |-> raised,
             embed_calls |-> embeds, upsert_calls |-> upserts, chunks |-> chunks,
             result |-> result]
    IN  IF env.fail = "embedding"
        THEN out("UpstreamError: embedding", vecs, env.at, 0, <<>>)
        ELSE IF env.fail = "upsert"
        THEN out("UpstreamError: upsert", vecs, Len(chunks), 1, <<>>)
        ELSE out("none", Upsert(vecs, new), Len(chunks), 1,
                 [filename |-> filename, chunks_indexed |-> Len(chunks),
                  index_name |-> INDEX_NAME, user_id |-> user_id])

----------------------------------------------------------------------------
(* app/RAG/rag_helper.py *)

\* The context block of the prompt: the chunk texts joined by blank lines, or the
\* placeholder "No context found."; NoPrompt: no prompt was composed.
Context(top_chunks) == [chunks |-> top_chunks, placeholder |-> top_chunks = <<>>]
NoPrompt == [chunks |-> <<>>, placeholder |-> FALSE]

NoKnowledgeBase == "No knowledge base found. Please upload documents first."

ZeroUsage == [total_tokens |-> 0, prompt_tokens |-> 0, completion_tokens |-> 0]

\* The records stored under one namespace of one index.
NamespaceVectors(vecs, index_name, namespace) ==
    {v \in vecs : v.index = index_name /\ v.namespace = namespace}

\* index.query(namespace, vector, top_k): the top_k nearest records of the namespace,
\* nearest first. The embeddings are opaque, so every order is a possible answer.
Rankings(S, k) ==
    {m \in [1..Min(k, Cardinality(S)) -> S] :
        \A i, j \in DOMAIN m : i # j => m[i] # m[j]}

\* What the services answer during one query.
AnswerEnvs(vecs, user_id, chatbot_title) ==
    [fail : {"none", "embedding", "chat"},
     matches : Rankings(NamespaceVectors(vecs, IndexName(user_id),
                                         Namespace(chatbot_title)), TopK),
     usage : ChatUsages]

\* generate_response: the outcome, given the Pinecone state (idx, vecs) and env.
generate_response(idx, vecs, query, user_id, chatbot_title, env) ==
    LET index_name == IndexName(user_id)
        top_chunks == [i \in DOMAIN env.matches |-> env.matches[i].chunk_text]
        context == Context(top_chunks)
        out(raised, text, usage, embeds, chats, ctx) ==
            [raised |-> raised, full_text |-> text, usage |-> usage,
             embed_calls |-> embeds, chat_calls |-> chats, context |-> ctx]
    IN  IF index_name \notin idx
        THEN out("none", NoKnowledgeBase, ZeroUsage, 0, 0, NoPrompt)
        ELSE IF chatbot_title = <<>>
        THEN out("ValueError: chatbot_title is required", "", ZeroUsage, 0, 0, NoPrompt)
        ELSE IF env.fail = "embedding"
        THEN out("UpstreamError: embedding", "", ZeroUsage, 1, 0, NoPrompt)
        ELSE IF env.fail = "chat"
        THEN out("UpstreamError: chat", "", ZeroUsage, 1, 1, context)
        ELSE out("none", "answer", env.usage, 1, 1, context)

----------------------------------------------------------------------------
(* app/RAG/token_tracker.py *)

OperationTypes == {"file_upload", "raw_text", "qa_pairs", "web_crawl", "ask_query"}

\* OPERATION_COLUMNS.get(operation_type); "" stands for None
OPERATION_COLUMNS(operation_type) ==
    CASE operation_type = "file_upload" -> "file_upload_tokens"
      [] operation_type = "raw_text" -> "raw_text_tokens"
      [] operation_type = "qa_pairs" -> "qa_pairs_tokens"
      [] operation_type = "web_crawl" -> "web_crawl_tokens"
      [] operation_type = "ask_query" -> "ask_query_tokens"
      [] OTHER -> ""

TokenColumns ==
    {"file_upload_tokens", "raw_text_tokens", "qa_pairs_tokens", "web_crawl_tokens",
     "ask_query_tokens"}

\* .eq("user_id", user_id).eq("chatbot_title", chatbot_title) on a table
RowsOf(table, user_id, chatbot_title) ==
    {r \in table : r.user_id = user_id /\ r.chatbot_title = chatbot_title}

\* The row initialize_bot_tokens inserts; id is the primary key the database assigns.
ZeroRow(table, user_id, chatbot_title) ==
    [id |-> Cardinality(RowsOf(table, user_id, chatbot_title)) + 1,
     user_id |-> user_id,
     chatbot_title |-> chatbot_title,
     file_upload_tokens |-> 0,
     raw_text_tokens |-> 0,
     qa_pairs_tokens |-> 0,
     web_crawl_tokens |-> 0,
     ask_query_tokens |-> 0]

\* supabase.table("bot_token_usage").insert({... all five counters 0 ...})
InsertZeroRow(table, user_id, chatbot_title) ==
    table \cup {ZeroRow(table, user_id, chatbot_title)}

\* Mutant: the update subtracts the tokens instead of adding them.
NewTotalSubtract(current_tokens, tokens_used) == current_tokens - tokens_used

\* new_total = current_tokens + tokens_used
NewTotal(current_tokens, tokens_used) == current_tokens + tokens_used

\* .update({column_name: new_total}).eq("user_id", ..).eq("chatbot_title", ..)
UpdateColumn(table, user_id, chatbot_title, column_name, new_total) ==
    {IF r.user_id = user_id /\ r.chatbot_title = chatbot_title
     THEN [r EXCEPT ![column_name] = new_total] ELSE r : r \in table}

\* Mutant: the zero row is written whether or not the bot has a row, replacing it.
InitializeResets(table, user_id, chatbot_title) ==
    (table \ RowsOf(table, user_id, StrLower(chatbot_title)))
        \cup {ZeroRow({}, user_id, StrLower(chatbot_title))}

\* initialize_bot_tokens, run without interruption: the table afterwards
initialize_bot_tokens(table, user_id, chatbot_title) ==
    LET title == StrLower(chatbot_title)
    IN  IF RowsOf(table, user_id, title) = {}
        THEN InsertZeroRow(table, user_id, title)
        ELSE table

\* update_tokens, run without interruption: the table afterwards and the dict returned.
\* first is the row the SELECT lists first (existing.data[0]).
update_tokens(table, user_id, chatbot_title, operation_type, tokens_used, first) ==
    LET title == StrLower(chatbot_title)
        table1 == initialize_bot_tokens(table, user_id, title)
        column_name == OPERATION_COLUMNS(operation_type)
        current_tokens == first[column_name]
        new_total == NewTotal(current_tokens, tokens_used)
    IN  IF column_name = ""
        THEN [table |-> table1, success |-> FALSE, new_total |-> 0]
        ELSE [table |-> UpdateColumn(table1, user_id, title, column_name, new_total),
              success |-> TRUE, new_total |-> new_total]

\* The rows a SELECT after initialize_bot_tokens can list first.
FirstRows(table, user_id, chatbot_title) ==
    RowsOf(initialize_bot_tokens(table, user_id, chatbot_title), user_id,
           StrLower(chatbot_title))

\* sum(operations.values()) of one row
RowTotal(r) ==
    r.file_upload_tokens + r.raw_text_tokens + r.qa_pairs_tokens + r.web_crawl_tokens
        + r.ask_query_tokens

----------------------------------------------------------------------------
(* app/RAG/auth_utils.py *)

\* Mutant: the key is not compared, any active row answers for it.
KeyRowsAnyKey(configs, api_key) == {r \in configs : r.is_active}

\* validate_api_key: the active rows that hold the key
KeyRows(configs, api_key) ==
    {r \in configs : r.api_key = api_key /\ r.is_active}

\* Mutant: the row of any tenant with this title opens the gate.
ActiveRowsAnyTenant(configs, user_id, chatbot_title) ==
    {r \in configs : r.chatbot_title = chatbot_title /\ r.is_active}

\* get_api_key: the active rows of (user_id, chatbot_title)
ActiveRows(configs, user_id, chatbot_title) ==
    {r \in configs :
        r.user_id = user_id /\ r.chatbot_title = chatbot_title /\ r.is_active}


----------------------------------------------------------------------------
(* app/RAG/routes.py: what a handler leaves behind in `last` *)

\* A response with status and detail, and no upstream call made.
Outcome(op, user_id, chatbot_title, status, detail) ==
    [op |-> op, user_id |-> user_id, chatbot_title |-> chatbot_title,
     status |-> status, detail |-> detail, body |-> <<>>,
     embed_calls |-> 0, chat_calls |-> 0, upsert_calls |-> 0, delete_calls |-> 0,
     deleted |-> 0, context |-> NoPrompt]

NoRequest == Outcome("none", <<>>, <<>>, 0, "")

----------------------------------------------------------------------------
(* app/RAG/routes.py: create_chatbot_api *)

\* .eq("user_id", user_id) on chatbot_configs
TenantRows(configs, user_id) == {r \in configs : r.user_id = user_id}

\* "snb_" + 32 random characters: a token no other row holds. The k-th row written
\* for a (tenant, title) holds the k-th token of that pair.
NewApiKey(configs, user_id, chatbot_title) ==
    <<"snb_", user_id, chatbot_title,
      Cardinality(RowsOf(configs, user_id, chatbot_title)) + 1>>

\* Mutant: the limit check lets a tenant with exactly MaxBots bots add one more.
LimitReachedOffByOne(current_bot_count) == current_bot_count > MaxBots

\* if current_bot_count >= 5
LimitReached(current_bot_count) == current_bot_count >= MaxBots

\* supabase.table("chatbot_configs").insert({...})
InsertConfig(configs, user_id, chatbot_title, api_key) ==
    configs \cup {[user_id |-> user_id, chatbot_title |-> chatbot_title,
                   api_key |-> api_key, is_active |-> TRUE]}

\* raise HTTPException(status, detail) inside the handler's try block: the handler's
\* own `except Exception` catches it and raises HTTPException(500) in its place.
CaughtAndRewrapped(op, user_id, chatbot_title, status, detail) ==
    Outcome(op, user_id, chatbot_title, 500, <<"failed", status, detail>>)

\* The response of create_chatbot_api for an existing row.
ExistingKeyResponse(user_id, chatbot_title, row) ==
    [Outcome("create_chatbot", user_id, chatbot_title, 200, "")
        EXCEPT !.body = [api_key |-> row.api_key, message |-> "API key already exists"]]

\* The response of create_chatbot_api after its insert.
CreatedResponse(user_id, chatbot_title, api_key) ==
    [Outcome("create_chatbot", user_id, chatbot_title, 200, "")
        EXCEPT !.body = [api_key |-> api_key, message |-> "API key created successfully"]]

LimitResponse(user_id, chatbot_title) ==
    CaughtAndRewrapped("create_chatbot", user_id, chatbot_title, 403, "Maximum limit is 5")

\* POST /rag/create-chatbot, handled without interruption
CreateChatbot(user_id, raw_title) ==
    LET chatbot_title == StrLower(raw_title)
        existing == RowsOf(chatbot_configs, user_id, chatbot_title)
        current_bot_count == Cardinality(TenantRows(chatbot_configs, user_id))
        api_key == NewApiKey(chatbot_configs, user_id, chatbot_title)
    IN  /\ IF existing # {}
           THEN /\ \E row \in existing :
                      last' = ExistingKeyResponse(user_id, chatbot_title, row)
                /\ UNCHANGED chatbot_configs
           ELSE IF LimitReached(current_bot_count)
           THEN /\ last' = LimitResponse(user_id, chatbot_title)
                /\ UNCHANGED chatbot_configs
           ELSE /\ chatbot_configs' =
                      InsertConfig(chatbot_configs, user_id, chatbot_title, api_key)
                /\ last' = CreatedResponse(user_id, chatbot_title, api_key)
        /\ UNCHANGED <<bot_token_usage, indexes, vectors, pc, loc>>


----------------------------------------------------------------------------
(* app/RAG/routes.py: the ingestion routes *)

\* The part the ingestion routes share: get_api_key, process_and_index_data, then
\* update_tokens with result["tokens_used"], then the response.
\*   r: the outcome of process_and_index_data; first: the ledger row read first
IngestRoute(op, operation_type, user_id, chatbot_title, r, first) ==
    LET called == [Outcome(op, user_id, chatbot_title, 500, r.raised)
                      EXCEPT !.embed_calls = r.embed_calls,
                             !.upsert_calls = r.upsert_calls]
        u == update_tokens(bot_token_usage, user_id, chatbot_title, operation_type,
                           r.result["tokens_used"], first)
    IN  /\ indexes' = r.indexes
        /\ vectors' = r.vectors
        /\ IF r.raised # "none"
           THEN /\ last' = called
                /\ UNCHANGED bot_token_usage
           ELSE IF "tokens_used" \notin DOMAIN r.result
           THEN /\ last' = [called EXCEPT !.detail = "KeyError: 'tokens_used'"]
                /\ UNCHANGED bot_token_usage
           ELSE /\ bot_token_usage' = u.table
                /\ last' = [called EXCEPT !.status = 200, !.detail = "",
                                          !.body = r.result]

\* get_api_key found no active row: HTTPException(403), raised outside any try block
NoApiKey(op, user_id, chatbot_title) ==
    /\ last' = Outcome(op, user_id, chatbot_title, 403, "No active API key found")
    /\ UNCHANGED <<bot_token_usage, indexes, vectors>>

\* The number of chunks an ingestion call collects (0 when it raises before).
ChunkCount(filename, file_bytes, raw_text, qa_json, source_type) ==
    IF CollectError(filename, file_bytes, qa_json) # "none" THEN 0
    ELSE Len(CollectChunks(filename, file_bytes, raw_text, qa_json, source_type))

\* POST /rag/docs/raw
DocsRaw(user_id, raw_title, raw_text) ==
    LET chatbot_title == StrLower(raw_title)
        n == ChunkCount(NoName, NoText, raw_text, NoQa, NoName)
        stored == NamespaceVectors(vectors, IndexName(user_id), Namespace(chatbot_title))
    IN  /\ IF ActiveRows(chatbot_configs, user_id, chatbot_title) = {}
           THEN NoApiKey("docs_raw", user_id, chatbot_title)
           ELSE \E env \in IngestEnvs(stored, n) :
                \E first \in FirstRows(bot_token_usage, user_id, chatbot_title) :
                    /\ IngestRoute("docs_raw", "raw_text", user_id, chatbot_title,
                           process_and_index_data(indexes, vectors, user_id, NoName,
                               NoText, raw_text, NoQa, NoName, chatbot_title, env),
                           first)
                    /\ Cardinality(vectors') <= MaxVectors
        /\ UNCHANGED <<chatbot_configs, pc, loc>>

\* qa_data = [{"question": qa.question, "answer": qa.answer} for qa in request.qa_pairs]
QaData(qa_pairs) ==
    [kind |-> "list",
     items |-> [k \in 1..Len(qa_pairs) |->
                  [is_dict |-> TRUE, keys |-> {"question", "answer"},
                   question |-> qa_pairs[k].question, answer |-> qa_pairs[k].answer]]]

\* POST /rag/docs/qa
DocsQa(user_id, raw_title, qa_pairs) ==
    LET chatbot_title == StrLower(raw_title)
        qa_data == QaData(qa_pairs)
        n == ChunkCount(NoName, NoText, NoText, qa_data, NoName)
        stored == NamespaceVectors(vectors, IndexName(user_id), Namespace(chatbot_title))
    IN  /\ IF ActiveRows(chatbot_configs, user_id, chatbot_title) = {}
           THEN NoApiKey("docs_qa", user_id, chatbot_title)
           ELSE \E env \in IngestEnvs(stored, n) :
                \E first \in FirstRows(bot_token_usage, user_id, chatbot_title) :
                    /\ IngestRoute("docs_qa", "qa_pairs", user_id, chatbot_title,
                           process_and_index_data(indexes, vectors, user_id, NoName,
                               NoText, NoText, qa_data, NoName, chatbot_title, env),
                           first)
                    /\ Cardinality(vectors') <= MaxVectors
        /\ UNCHANGED <<chatbot_configs, pc, loc>>

\* file.filename.lower().endswith((".pdf", ".docx", ".txt"))
SupportedUpload(filename) ==
    Len(filename) >= 2 /\ LowerWord(filename[Len(filename)]) \in {"pdf", "docx", "txt"}

\* POST /rag/docs/file
DocsFile(user_id, raw_title, filename, file_bytes) ==
    LET chatbot_title == StrLower(raw_title)
        api_keys == {r.api_key : r \in ActiveRows(chatbot_configs, user_id, chatbot_title)}
        n == ChunkCount(filename, file_bytes, NoText, NoQa, NoName)
        stored == NamespaceVectors(vectors, IndexName(user_id), Namespace(chatbot_title))
    IN  /\ IF api_keys = {}
           THEN NoApiKey("docs_file", user_id, chatbot_title)
           ELSE IF ~SupportedUpload(filename)
           THEN /\ last' = Outcome("docs_file", user_id, chatbot_title, 400,
                                   "Only .pdf, .docx, and .txt files are supported")
                /\ UNCHANGED <<bot_token_usage, indexes, vectors>>
           ELSE \E env \in IngestEnvs(stored, n) :
                \E first \in FirstRows(bot_token_usage, user_id, chatbot_title) :
                \E api_key \in api_keys :
                LET r == process_and_index_data(indexes, vectors, user_id, filename,
                             file_bytes, NoText, NoQa, NoName, chatbot_title, env)
                    called == [Outcome("docs_file", user_id, chatbot_title, 500, r.raised)
                                  EXCEPT !.embed_calls = r.embed_calls,
                                         !.upsert_calls = r.upsert_calls]
                    u == update_tokens(bot_token_usage, user_id, chatbot_title,
                                       "file_upload", r.result["tokens_used"], first)
                IN  /\ indexes' = r.indexes
                    /\ vectors' = r.vectors
                    /\ Cardinality(vectors') <= MaxVectors
                    /\ IF r.raised # "none"
                       THEN /\ last' = called
                            /\ UNCHANGED bot_token_usage
                       ELSE IF "tokens_used" \notin DOMAIN r.result
                       THEN /\ last' = [called EXCEPT !.detail = "KeyError: 'tokens_used'"]
                            /\ UNCHANGED bot_token_usage
                       ELSE /\ bot_token_usage' = u.table
                            /\ last' = [called EXCEPT
                                          !.status = 200, !.detail = "",
                                          !.body = [chunks_indexed |-> r.result.chunks_indexed,
                                                    tokens_used |-> r.result["tokens_used"],
                                                    api_key |-> api_key]]
        /\ UNCHANGED <<chatbot_configs, pc, loc>>

----------------------------------------------------------------------------
(* app/RAG/routes.py: fetch_and_index *)

\* The state of the loop over grouped_chunks before a block is indexed.
CrawlStart ==
    [indexes |-> indexes, vectors |-> vectors, table |-> bot_token_usage,
     raised |-> "none", embed_calls |-> 0, upsert_calls |-> 0, results |-> <<>>]

\* One pass of `for block in grouped_chunks`: process_and_index_data on the block's
\* combined_text, update_tokens with result["tokens_used"], results.append.
CrawlBlock(st, user_id, chatbot_title, endpoint, combined_text, env, first) ==
    LET r == process_and_index_data(st.indexes, st.vectors, user_id, endpoint, NoText,
                 combined_text, NoQa, <<"web_crawling">>, chatbot_title, env)
        called == [st EXCEPT !.indexes = r.indexes, !.vectors = r.vectors,
                             !.embed_calls = @ + r.embed_calls,
                             !.upsert_calls = @ + r.upsert_calls]
        u == update_tokens(st.table, user_id, chatbot_title, "web_crawl",
                           r.result["tokens_used"], first)
    IN  IF r.raised # "none"
        THEN [called EXCEPT !.raised = r.raised]
        ELSE IF "tokens_used" \notin DOMAIN r.result
        THEN [called EXCEPT !.raised = "KeyError: 'tokens_used'"]
        ELSE [called EXCEPT !.table = u.table,
                            !.results = Append(@, [chunks_indexed |-> r.result.chunks_indexed,
                                                   tokens_used |-> r.result["tokens_used"]])]

\* The states the loop can end in: every answer of the services, every row order.
RECURSIVE CrawlLoop(_, _, _, _, _)
CrawlLoop(st, user_id, chatbot_title, endpoint, blocks) ==
    IF blocks = <<>> \/ st.raised # "none" THEN {st}
    ELSE LET stored == NamespaceVectors(st.vectors, IndexName(user_id),
                                        Namespace(chatbot_title))
             n == ChunkCount(endpoint, NoText, Head(blocks), NoQa, <<"web_crawling">>)
         IN  UNION {CrawlLoop(CrawlBlock(st, user_id, chatbot_title, endpoint,
                                         Head(blocks), env, first),
                              user_id, chatbot_title, endpoint, Tail(blocks)) :
                       <<env, first>> \in IngestEnvs(stored, n)
                                            \X FirstRows(st.table, user_id, chatbot_title)}

\* POST /rag/crawl/fetch; page: whether the GET succeeded, and the combined_text of
\* the blocks the headings and paragraphs of the page are grouped into
Crawl(user_id, raw_title, endpoint, page) ==
    LET chatbot_title == StrLower(raw_title)
    IN  /\ IF ActiveRows(chatbot_configs, user_id, chatbot_title) = {}
           THEN NoApiKey("crawl_fetch", user_id, chatbot_title)
           ELSE IF ~page.ok
           THEN /\ last' = Outcome("crawl_fetch", user_id, chatbot_title, 400,
                                   "Failed to fetch")
                /\ UNCHANGED <<bot_token_usage, indexes, vectors>>
           ELSE IF page.blocks = <<>>
           THEN /\ last' = Outcome("crawl_fetch", user_id, chatbot_title, 400,
                                   "No meaningful structured text found")
                /\ UNCHANGED <<bot_token_usage, indexes, vectors>>
           ELSE \E st \in CrawlLoop(CrawlStart, user_id, chatbot_title, endpoint,
                                    page.blocks) :
                    /\ indexes' = st.indexes
                    /\ vectors' = st.vectors
                    /\ Cardinality(vectors') <= MaxVectors
                    /\ bot_token_usage' = st.table
                    /\ last' = [Outcome("crawl_fetch", user_id, chatbot_title,
                                        IF st.raised = "none" THEN 200 ELSE 500,
                                        IF st.raised = "none" THEN "" ELSE st.raised)
                                  EXCEPT !.embed_calls = st.embed_calls,
                                         !.upsert_calls = st.upsert_calls,
                                         !.body = IF st.raised = "none"
                                                  THEN [blocks_extracted |-> Len(page.blocks),
                                                        indexed_blocks |-> st.results]
                                                  ELSE <<>>]
        /\ UNCHANGED <<chatbot_configs, pc, loc>>

----------------------------------------------------------------------------
(* app/RAG/routes.py: ask *)

\* The api keys a client may send: the keys of the rows, and one that was never issued.
BadKey == <<"snb_", <<>>, <<>>, 0>>

\* Every ledger counter of the bot stays within the model's bound after n more tokens.
LedgerRoom(table, user_id, chatbot_title, column_name, n) ==
    \A r \in RowsOf(table, user_id, chatbot_title) : r[column_name] + n <= MaxTokens

\* POST /rag/ask
Ask(api_key, query) ==
    LET rows == KeyRows(chatbot_configs, api_key)
    IN  /\ IF rows = {}
           THEN /\ last' = [Outcome("ask", <<>>, <<>>, 401, "Invalid or inactive API key")
                               EXCEPT !.body = [api_key |-> api_key]]
                /\ UNCHANGED bot_token_usage
           ELSE \E api_data \in rows :
                LET user_id == api_data.user_id
                    chatbot_title == StrLower(api_data.chatbot_title)
                IN  \E env \in AnswerEnvs(vectors, user_id, chatbot_title) :
                    \E first \in FirstRows(bot_token_usage, user_id, chatbot_title) :
                    LET g == generate_response(indexes, vectors, query, user_id,
                                               chatbot_title, env)
                        total_tokens == g.usage.total_tokens
                        u == update_tokens(bot_token_usage, user_id, chatbot_title,
                                           "ask_query", total_tokens, first)
                        called == [Outcome("ask", user_id, chatbot_title, 500, g.raised)
                                      EXCEPT !.embed_calls = g.embed_calls,
                                             !.chat_calls = g.chat_calls,
                                             !.context = g.context,
                                             !.body = [api_key |-> api_key]]
                    IN  /\ LedgerRoom(bot_token_usage, user_id, chatbot_title,
                                      "ask_query_tokens", total_tokens)
                        /\ IF g.raised # "none"
                           THEN /\ last' = called
                                /\ UNCHANGED bot_token_usage
                           ELSE /\ bot_token_usage' = u.table
                                /\ last' = [called EXCEPT
                                              !.status = 200, !.detail = "",
                                              !.body = [api_key |-> api_key,
                                                        answer |-> g.full_text,
                                                        tokens_used |-> total_tokens,
                                                        usage |-> g.usage]]
        /\ UNCHANGED <<chatbot_configs, indexes, vectors, pc, loc>>

----------------------------------------------------------------------------
(* app/RAG/routes.py: flush_namespace *)

\* Mutant: the delete leaves out the namespace and empties the whole index.
DeleteWholeIndex(vecs, index_name, namespace) ==
    {v \in vecs : v.index # index_name}

\* index.delete(delete_all=True, namespace=namespace)
DeleteNamespace(vecs, index_name, namespace) ==
    {v \in vecs : ~(v.index = index_name /\ v.namespace = namespace)}

\* POST /rag/flush; fail: whether Pinecone's delete call fails
Flush(user_id, raw_title, fail) ==
    LET chatbot_title == StrLower(raw_title)
        namespace == FlushNamespaceOf(chatbot_title)
        INDEX_NAME == IndexName(user_id)
    IN  /\ IF INDEX_NAME \notin indexes
           THEN /\ last' = CaughtAndRewrapped("flush", user_id, chatbot_title, 404,
                                              "Index not found")
                /\ UNCHANGED vectors
           ELSE IF fail
           THEN /\ last' = [Outcome("flush", user_id, chatbot_title, 500,
                                    "Flush failed: UpstreamError: delete")
                               EXCEPT !.delete_calls = 1]
                /\ UNCHANGED vectors
           ELSE /\ vectors' = DeleteNamespace(vectors, INDEX_NAME, namespace)
                /\ last' = [Outcome("flush", user_id, chatbot_title, 200, "")
                               EXCEPT !.delete_calls = 1,
                                      !.deleted = Cardinality(vectors \ vectors'),
                                      !.body = [namespace |-> namespace,
                                                index_name |-> INDEX_NAME]]
        /\ UNCHANGED <<chatbot_configs, bot_token_usage, indexes, pc, loc>>

----------------------------------------------------------------------------
(* The routes, each request handled without interruption *)

Workers == {1, 2, 3}

Idle == [w \in Workers |-> "idle"]
NoLocals == [w \in Workers |-> <<>>]

Init ==
    /\ chatbot_configs = {}
    /\ bot_token_usage = {}
    /\ indexes = {}
    /\ vectors = {}
    /\ pc = Idle
    /\ loc = NoLocals
    /\ last = NoRequest

QaRequests == {<<[question |-> <<"q">>, answer |-> <<"a">>]>>}

\* The requests clients send about the bots of `bots`, with texts of the lengths `lens`.
Routes(bots, lens) ==
    \/ \E b \in bots : CreateChatbot(b[1], b[2])
    \/ \E b \in bots : \E raw_text \in RawTexts(b[1], StrLower(b[2])) :
           raw_text.len \in lens /\ DocsRaw(b[1], b[2], raw_text)
    \/ \E r \in chatbot_configs \cup {[api_key |-> BadKey]} : \E query \in Queries :
           Ask(r.api_key, query)
    \/ \E b \in bots : \E fail \in BOOLEAN : Flush(b[1], b[2], fail)

Next == Routes(Bots, ShortLens)

Spec == Init /\ [][Next]_vars

\* Two bots of one tenant whose titles differ only in " " against "_".
TwinBots == {<<u, t>> \in Users \X Titles : u = <<"u", "1">> /\ t # <<"B">>}

NextTwins == Routes(TwinBots, TextLens)

SpecTwins == Init /\ [][NextTwins]_vars

----------------------------------------------------------------------------
(* create_chatbot_api, handled without interruption, for tenants with many bots *)

\* One tenant with six titles (MaxBots + 1), another with one.
ManyTitles == Titles \cup {<<"c">>, <<"D">>, <<"e">>}
CreateInputs ==
    {<<u, t>> \in Users \X ManyTitles : u = <<"u", "1">> \/ t = <<"B">>}

NextBots == \E b \in CreateInputs : CreateChatbot(b[1], b[2])

SpecBots == Init /\ [][NextBots]_vars

----------------------------------------------------------------------------
(* create_chatbot_api, one database call per step, on two worker threads *)

\* The request reaches the handler: user_id and the lower-cased title are bound.
CcStart(w, user_id, raw_title) ==
    /\ pc[w] = "idle"
    /\ pc' = [pc EXCEPT ![w] = "cc_existing"]
    /\ loc' = [loc EXCEPT ![w] = [user_id |-> user_id,
                                  chatbot_title |-> StrLower(raw_title)]]
    /\ UNCHANGED <<chatbot_configs, bot_token_usage, indexes, vectors, last>>

\* existing = select api_key ... eq(user_id).eq(chatbot_title); if existing.data: return
CcSelectExisting(w) ==
    /\ pc[w] = "cc_existing"
    /\ LET existing == RowsOf(chatbot_configs, loc[w].user_id, loc[w].chatbot_title)
       IN  IF existing # {}
           THEN /\ \E row \in existing :
                      last' = ExistingKeyResponse(loc[w].user_id,
                                                  loc[w].chatbot_title, row)
                /\ pc' = [pc EXCEPT ![w] = "idle"]
                /\ loc' = [loc EXCEPT ![w] = <<>>]
           ELSE /\ pc' = [pc EXCEPT ![w] = "cc_count"]
                /\ UNCHANGED <<loc, last>>
    /\ UNCHANGED <<chatbot_configs, bot_token_usage, indexes, vectors>>

\* all_user_bots = select chatbot_title ... eq(user_id); the limit check
CcCountBots(w) ==
    /\ pc[w] = "cc_count"
    /\ LET current_bot_count ==
               Cardinality(TenantRows(chatbot_configs, loc[w].user_id))
       IN  IF LimitReached(current_bot_count)
           THEN /\ last' = LimitResponse(loc[w].user_id, loc[w].chatbot_title)
                /\ pc' = [pc EXCEPT ![w] = "idle"]
                /\ loc' = [loc EXCEPT ![w] = <<>>]
           ELSE /\ pc' = [pc EXCEPT ![w] = "cc_insert"]
                /\ UNCHANGED <<loc, last>>
    /\ UNCHANGED <<chatbot_configs, bot_token_usage, indexes, vectors>>

\* insert({user_id, chatbot_title, api_key, is_active: True, ...}); return the key
CcInsert(w) ==
    /\ pc[w] = "cc_insert"
    /\ LET api_key == NewApiKey(chatbot_configs, loc[w].user_id, loc[w].chatbot_title)
       IN  /\ chatbot_configs' = InsertConfig(chatbot_configs, loc[w].user_id,
                                              loc[w].chatbot_title, api_key)
           /\ last' = CreatedResponse(loc[w].user_id, loc[w].chatbot_title, api_key)
    /\ pc' = [pc EXCEPT ![w] = "idle"]
    /\ loc' = [loc EXCEPT ![w] = <<>>]
    /\ UNCHANGED <<bot_token_usage, indexes, vectors>>

NextCreate ==
    \E w \in {1, 2} :
        \/ \E b \in CreateInputs : CcStart(w, b[1], b[2])
        \/ CcSelectExisting(w)
        \/ CcCountBots(w)
        \/ CcInsert(w)

SpecCreate == Init /\ [][NextCreate]_vars

----------------------------------------------------------------------------
(* token_tracker.py, one database call per step; every worker thread runs one call *)

\* The call reaches initialize_bot_tokens / update_tokens / get_bot_tokens: the
\* title is lower-cased, nothing is read yet.
LedgerCall(w, fn, user_id, raw_title, operation_type, tokens_used) ==
    /\ pc[w] = "idle"
    /\ pc' = [pc EXCEPT ![w] = "init_select"]
    /\ loc' = [loc EXCEPT ![w] =
                 [fn |-> fn, user_id |-> user_id, chatbot_title |-> StrLower(raw_title),
                  operation_type |-> operation_type, tokens_used |-> tokens_used,
                  current_tokens |-> 0, success |-> FALSE, new_total |-> 0]]
    /\ UNCHANGED <<chatbot_configs, bot_token_usage, indexes, vectors, last>>

\* Where a call goes on after initialize_bot_tokens returned.
AfterInitialize(fn) ==
    CASE fn = "update_tokens" -> "ut_select"
      [] fn = "get_bot_tokens" -> "gt_select"
      [] OTHER -> "done"

\* initialize_bot_tokens: existing = select id ... eq(user_id).eq(chatbot_title)
InitSelect(w) ==
    /\ pc[w] = "init_select"
    /\ IF RowsOf(bot_token_usage, loc[w].user_id, loc[w].chatbot_title) = {}
       THEN /\ pc' = [pc EXCEPT ![w] = "init_insert"]
            /\ UNCHANGED loc
       ELSE /\ pc' = [pc EXCEPT ![w] = AfterInitialize(loc[w].fn)]
            /\ loc' = [loc EXCEPT ![w].success = loc[w].fn = "initialize_bot_tokens"]
    /\ UNCHANGED <<chatbot_configs, bot_token_usage, indexes, vectors, last>>

\* initialize_bot_tokens: insert the row with the five counters 0
InitInsert(w) ==
    /\ pc[w] = "init_insert"
    /\ bot_token_usage' =
           InsertZeroRow(bot_token_usage, loc[w].user_id, loc[w].chatbot_title)
    /\ pc' = [pc EXCEPT ![w] = AfterInitialize(loc[w].fn)]
    /\ loc' = [loc EXCEPT ![w].success = loc[w].fn = "initialize_bot_tokens"]
    /\ UNCHANGED <<chatbot_configs, indexes, vectors, last>>

\* update_tokens: the column of the operation; existing = select column ...;
\* current_tokens = existing.data[0][column_name]
UtSelect(w) ==
    /\ pc[w] = "ut_select"
    /\ LET column_name == OPERATION_COLUMNS(loc[w].operation_type)
           existing == RowsOf(bot_token_usage, loc[w].user_id, loc[w].chatbot_title)
       IN  IF column_name = "" \/ existing = {}
           THEN /\ pc' = [pc EXCEPT ![w] = "done"]
                /\ loc' = [loc EXCEPT ![w].success = FALSE]
           ELSE /\ pc' = [pc EXCEPT ![w] = "ut_update"]
                /\ \E first \in existing :
                       loc' = [loc EXCEPT ![w].current_tokens = first[column_name]]
    /\ UNCHANGED <<chatbot_configs, bot_token_usage, indexes, vectors, last>>

\* update_tokens: update({column_name: new_total}).eq(user_id).eq(chatbot_title)
UtUpdate(w) ==
    /\ pc[w] = "ut_update"
    /\ LET new_total == NewTotal(loc[w].current_tokens, loc[w].tokens_used)
       IN  /\ bot_token_usage' =
                  UpdateColumn(bot_token_usage, loc[w].user_id, loc[w].chatbot_title,
                               OPERATION_COLUMNS(loc[w].operation_type), new_total)
           /\ loc' = [loc EXCEPT ![w].success = TRUE, ![w].new_total = new_total]
    /\ pc' = [pc EXCEPT ![w] = "done"]
    /\ UNCHANGED <<chatbot_configs, indexes, vectors, last>>

\* get_bot_tokens: select the five counters; total = sum(operations.values())
GtSelect(w) ==
    /\ pc[w] = "gt_select"
    /\ LET result == RowsOf(bot_token_usage, loc[w].user_id, loc[w].chatbot_title)
       IN  IF result = {}
           THEN loc' = [loc EXCEPT ![w].success = FALSE]
           ELSE \E row \in result :
                    loc' = [loc EXCEPT ![w].success = TRUE,
                                       ![w].new_total = RowTotal(row)]
    /\ pc' = [pc EXCEPT ![w] = "done"]
    /\ UNCHANGED <<chatbot_configs, bot_token_usage, indexes, vectors, last>>

\* The ledger calls: one tenant's bot under two spellings of its title.
LedgerTitles == {<<"B">>, <<"b">>}
LedgerOps == {"ask_query", "raw_text"}
TokenAmounts == {1, 2}

NextLedger ==
    \E w \in Workers :
        \/ \E t \in LedgerTitles, o \in LedgerOps, n \in TokenAmounts :
               LedgerCall(w, "update_tokens", <<"u", "1">>, t, o, n)
        \/ LedgerCall(w, "update_tokens", <<"u", "1">>, <<"B">>, "bogus", 1)
        \/ \E t \in LedgerTitles :
               LedgerCall(w, "initialize_bot_tokens", <<"u", "1">>, t, "", 0)
        \/ \E u \in Users : LedgerCall(w, "get_bot_tokens", u, <<"B">>, "", 0)
        \/ InitSelect(w)
        \/ InitInsert(w)
        \/ UtSelect(w)
        \/ UtUpdate(w)
        \/ GtSelect(w)

SpecLedger == Init /\ [][NextLedger]_vars

----------------------------------------------------------------------------
(* The four ingestion routes, each request handled without interruption *)

\* Uploaded files: name (dot-separated parts) and content.
FileNames == {<<"d", "PDF">>, <<"d", "exe">>}

\* Crawled pages: the GET fails, the page has no text, one block, two blocks.
Pages(user_id, chatbot_title) ==
    {[ok |-> FALSE, blocks |-> <<>>], [ok |-> TRUE, blocks |-> <<>>]}
    \cup {[ok |-> TRUE, blocks |-> <<t>>] : t \in RawTexts(user_id, chatbot_title)}
    \cup {[ok |-> TRUE, blocks |-> <<t, t>>] :
             t \in {x \in RawTexts(user_id, chatbot_title) : x.len \in ShortLens}}

\* The bots the ingestion requests name: one that gets created, one per tenant.
IngestBots == {b \in Bots : b[2] = <<"B">>}

NextIngest ==
    \E b \in IngestBots :
        \/ b[1] = <<"u", "1">> /\ CreateChatbot(b[1], b[2])
        \/ \E filename \in FileNames, file_bytes \in RawTexts(b[1], StrLower(b[2])) :
               DocsFile(b[1], b[2], filename, file_bytes)
        \/ \E raw_text \in RawTexts(b[1], StrLower(b[2])) : DocsRaw(b[1], b[2], raw_text)
        \/ \E qa_pairs \in QaRequests : DocsQa(b[1], b[2], qa_pairs)
        \/ \E page \in Pages(b[1], StrLower(b[2])) : Crawl(b[1], b[2], <<"docs">>, page)
        \/ \E fail \in BOOLEAN : Flush(b[1], b[2], fail)

SpecIngest == Init /\ [][NextIngest]_vars

----------------------------------------------------------------------------
(* The ingestion functions, called with every combination of their arguments *)

\* A call of process_and_index_data; `last` keeps the arguments and the outcome.
ProcessAndIndexData(user_id, filename, file_bytes, raw_text, qa_json, source_type, chatbot_title) ==
    LET n == ChunkCount(filename, file_bytes, raw_text, qa_json, source_type)
        stored == NamespaceVectors(vectors, IndexName(user_id), Namespace(chatbot_title))
    IN  \E env \in IngestEnvs(stored, n) :
            LET r == process_and_index_data(indexes, vectors, user_id, filename,
                         file_bytes, raw_text, qa_json, source_type, chatbot_title, env)
            IN  /\ indexes' = r.indexes
                /\ vectors' = r.vectors
                /\ Cardinality(vectors') <= MaxVectors
                /\ last' = [Outcome("process_and_index_data", user_id, chatbot_title, 0,
                                    r.raised)
                              EXCEPT !.embed_calls = r.embed_calls,
                                     !.upsert_calls = r.upsert_calls,
                                     !.body = [filename |-> filename,
                                               file_bytes |-> file_bytes,
                                               raw_text |-> raw_text,
                                               qa_json |-> qa_json,
                                               chunks |-> r.chunks,
                                               result |-> r.result]]
                /\ UNCHANGED <<chatbot_configs, bot_token_usage, pc, loc>>

\* POST /docs of app/main.py: the legacy upload of a PDF
LegacyDocs(user_id, filename, file_bytes) ==
    IF LowerWord(filename[Len(filename)]) # "pdf" \/ Len(filename) < 2
    THEN /\ last' = Outcome("docs", user_id, <<>>, 400, "Only .pdf files are supported")
         /\ UNCHANGED <<chatbot_configs, bot_token_usage, indexes, vectors, pc, loc>>
    ELSE \E env \in IngestEnvs({}, WindowCount(file_bytes.len)) :
            LET r == process_and_index_pdf(indexes, vectors, file_bytes, filename,
                                           user_id, env)
            IN  /\ indexes' = r.indexes
                /\ vectors' = r.vectors
                /\ Cardinality(vectors') <= MaxVectors
                /\ last' = [Outcome("docs", user_id, <<>>,
                                    IF r.raised = "none" THEN 200 ELSE 500, r.raised)
                              EXCEPT !.embed_calls = r.embed_calls,
                                     !.upsert_calls = r.upsert_calls,
                                     !.body = [filename |-> filename,
                                               file_bytes |-> file_bytes,
                                               raw_text |-> NoText,
                                               qa_json |-> NoQa,
                                               chunks |-> r.chunks,
                                               result |-> r.result]]
                /\ UNCHANGED <<chatbot_configs, bot_token_usage, pc, loc>>

\* qa_json arguments: absent, lists of objects, a list with a string in it, the JSON
\* text of a list, text that is not JSON, a value that is neither text nor list.
QaGoodList == [kind |-> "list", items |-> <<QaGood>>]

QaOther == [is_dict |-> TRUE, keys |-> {"question", "answer"},
            question |-> <<" ", "p">>, answer |-> <<"a", " ">>]

QaJsons ==
    {NoQa} \cup QaLists
    \cup {[kind |-> "list", items |-> <<QaOther, QaBlank, QaGood>>]}
    \cup {[kind |-> "list", items |-> <<QaGood, QaString>>],
          [kind |-> "string", items |-> <<QaGood>>],
          [kind |-> "bad_string", items |-> <<>>],
          [kind |-> "dict", items |-> <<>>]}

\* The arguments of the calls: each input kind alone, none, and mixtures of a valid
\* input with an invalid one; the last one lacks the chatbot_title.
ProcessInputs ==
    LET File == [doc |-> <<"f">>, len |-> 600]
        Raw(n) == [doc |-> <<"r">>, len |-> n]
        Pdf == <<"d", "PDF">>
        Exe == <<"d", "exe">>
        Bad == [kind |-> "list", items |-> <<QaGood, QaString>>]
        in(filename, file_bytes, raw_text, qa_json) ==
            [filename |-> filename, file_bytes |-> file_bytes, raw_text |-> raw_text,
             qa_json |-> qa_json, chatbot_title |-> <<"b">>]
    IN  {in(NoName, NoText, NoText, NoQa), in(Pdf, NoText, NoText, NoQa),
         in(Pdf, File, NoText, NoQa), in(Exe, File, NoText, NoQa),
         in(Exe, File, Raw(600), NoQa), in(Pdf, File, NoText, Bad),
         in(NoName, NoText, Raw(600), Bad), in(NoName, NoText, Raw(600), QaGoodList)}
        \cup {in(NoName, NoText, Raw(n), NoQa) : n \in TextLens}
        \cup {in(NoName, NoText, NoText, qa_json) : qa_json \in QaJsons}
        \cup {[in(NoName, NoText, Raw(600), NoQa) EXCEPT !.chatbot_title = <<>>]}

NextProcess ==
    \/ \E a \in ProcessInputs :
           ProcessAndIndexData(<<"u", "1">>, a.filename, a.file_bytes, a.raw_text,
                               a.qa_json, NoName, a.chatbot_title)
    \/ \E filename \in FileNames, n \in ShortLens :
           LegacyDocs(<<"u", "1">>, filename, [doc |-> <<"f">>, len |-> n])

SpecProcess == Init /\ [][NextProcess]_vars

----------------------------------------------------------------------------
(* token_tracker.py, every call run without interruption *)

\* What a token_tracker function returns, kept in `last`.
Returned(fn, user_id, chatbot_title, body) ==
    [Outcome(fn, user_id, StrLower(chatbot_title), 0, "") EXCEPT !.body = body]

\* initialize_bot_tokens(user_id, chatbot_title)
InitializeBot(user_id, raw_title) ==
    /\ bot_token_usage' = initialize_bot_tokens(bot_token_usage, user_id, raw_title)
    /\ last' = Returned("initialize_bot_tokens", user_id, raw_title, [success |-> TRUE])
    /\ UNCHANGED <<chatbot_configs, indexes, vectors, pc, loc>>

\* update_tokens(user_id, chatbot_title, operation_type, tokens_used)
UpdateTokens(user_id, raw_title, operation_type, tokens_used) ==
    \E first \in FirstRows(bot_token_usage, user_id, raw_title) :
        LET u == update_tokens(bot_token_usage, user_id, raw_title, operation_type,
                               tokens_used, first)
            column_name == OPERATION_COLUMNS(operation_type)
        IN  /\ column_name # "" =>
                   LedgerRoom(bot_token_usage, user_id, StrLower(raw_title), column_name,
                              tokens_used)
            /\ bot_token_usage' = u.table
            /\ last' = Returned("update_tokens", user_id, raw_title,
                           IF u.success
                           THEN [success |-> TRUE, operation |-> operation_type,
                                 previous_tokens |-> first[column_name],
                                 tokens_added |-> tokens_used, new_total |-> u.new_total]
                           ELSE [success |-> FALSE, operation |-> operation_type,
                                 previous_tokens |-> 0, tokens_added |-> 0,
                                 new_total |-> 0])
            /\ UNCHANGED <<chatbot_configs, indexes, vectors, pc, loc>>

\* get_bot_tokens(user_id, chatbot_title)
GetBotTokens(user_id, raw_title) ==
    /\ bot_token_usage' = initialize_bot_tokens(bot_token_usage, user_id, raw_title)
    /\ \E row \in RowsOf(bot_token_usage', user_id, StrLower(raw_title)) :
           last' = Returned("get_bot_tokens", user_id, raw_title,
                            [total_tokens |-> RowTotal(row)])
    /\ UNCHANGED <<chatbot_configs, indexes, vectors, pc, loc>>

\* The calls made one after the other: two tenants, a bot under two spellings.
SeqOps == LedgerOps \cup {"bogus"}
SeqAmounts == TokenAmounts \cup {0}

NextTokens ==
    \E user_id \in Users, t \in LedgerTitles :
        \/ InitializeBot(user_id, t)
        \/ \E o \in SeqOps, n \in SeqAmounts : UpdateTokens(user_id, t, o, n)
        \/ GetBotTokens(user_id, t)

SpecTokens == Init /\ [][NextTokens]_vars

----------------------------------------------------------------------------
(* Claims about the routes *)

IngestOps == {"docs_file", "docs_raw", "docs_qa", "crawl_fetch"}

\* The records under the namespace of the bot that `o` is about.
BotVectors(o) ==
    NamespaceVectors(vectors, IndexName(o.user_id), Namespace(o.chatbot_title))

\* The answer an ask request gets is the no-knowledge-base sentinel at no cost.
SentinelAnswer(o) ==
    /\ o.status = 200
    /\ o.body.answer = NoKnowledgeBase
    /\ o.body.usage = ZeroUsage
    /\ o.chat_calls = 0

\* C1: a query of a bot whose namespace holds no vectors, the tenant's container
\* being absent or there because another bot of the tenant was ingested, returns
\* the no-knowledge-base sentinel with zero usage and calls no chat completion.
C1_EmptyNamespaceGetsSentinel ==
    (/\ last.op = "ask"
     /\ last.status # 401
     /\ BotVectors(last) = {}
     /\ \/ IndexName(last.user_id) \notin indexes
        \/ \E v \in vectors : v.index = IndexName(last.user_id))
    => SentinelAnswer(last)

\* C2: an ask that directly follows a flush that emptied the bot's namespace (so
\* an ingestion had filled it) is answered with the sentinel at zero usage.
C2_FlushThenAskGetsSentinel ==
    [][(/\ last.op = "flush" /\ last.status = 200 /\ last.deleted > 0
        /\ last'.op = "ask"
        /\ last'.user_id = last.user_id
        /\ last'.chatbot_title = last.chatbot_title)
       => SentinelAnswer(last')]_vars

\* The records a step adds, removes or overwrites.
Touched == (vectors' \ vectors) \cup (vectors \ vectors')

\* C3: an ingestion call for (tenant, bot) changes only the records of the bot's
\* namespace inside the tenant's container.
C3_IngestTouchesOnlyOwnNamespace ==
    [][last'.op \in IngestOps =>
         \A v \in Touched :
             /\ v.index = IndexName(last'.user_id)
             /\ v.namespace = Namespace(last'.chatbot_title)]_vars

\* An ingestion has just stored records for a bot while another namespace of the
\* tenant and another tenant's container hold records.
C3_Witness ==
    /\ last.op \in IngestOps
    /\ last.upsert_calls = 1
    /\ BotVectors(last) # {}
    /\ \E v \in vectors :
           v.index = IndexName(last.user_id) /\ v \notin BotVectors(last)
    /\ \E v \in vectors : v.index # IndexName(last.user_id)

\* The bot a chunk text was uploaded for: documents are named after their bot.
ChunkOwner(text) == text.doc

\* C4: the context of a query of one bot holds no chunk text ingested for another
\* bot (another lower-cased title of chatbot_configs).
C4_ContextHoldsOwnChunksOnly ==
    last.op = "ask" /\ last.chat_calls = 1 =>
        \A i \in DOMAIN last.context.chunks :
            ChunkOwner(last.context.chunks[i]) = <<last.user_id, last.chatbot_title>>

----------------------------------------------------------------------------
(* Claims about create_chatbot_api *)

\* C5: a tenant owns at most 5 rows of chatbot_configs, also when the count
\* check and the insert of several create-chatbot calls interleave.
C5_AtMostFiveBots ==
    \A u \in Users : Cardinality(TenantRows(chatbot_configs, u)) <= MaxBots

\* The bots the tenant of response o' owned before the step, and whether the title
\* of o' was new then.
OwnedBefore(o) == Cardinality(TenantRows(chatbot_configs, o.user_id))
NewTitle(o) == RowsOf(chatbot_configs, o.user_id, o.chatbot_title) = {}

\* C6: with 5 bots owned, create-chatbot with a new title answers HTTP 403 (the
\* maximum-limit detail) and inserts no row; with 4 bots owned it succeeds and
\* inserts exactly one row.
C6_SixthRejectedFifthCreated ==
    [][last'.op = "create_chatbot" /\ NewTitle(last') =>
         /\ OwnedBefore(last') = MaxBots =>
                /\ last'.status = 403
                /\ chatbot_configs' = chatbot_configs
         /\ OwnedBefore(last') = MaxBots - 1 =>
                /\ last'.status = 200
                /\ Cardinality(chatbot_configs' \ chatbot_configs) = 1
                /\ chatbot_configs \subseteq chatbot_configs']_vars

\* C7: each (tenant, lower-cased title) has at most one chatbot_configs row and
\* one api key, also after interleaved create-chatbot calls for one title, and a
\* call for an existing bot returns the stored key.
C7_OneRowAndKeyPerBot ==
    /\ \A r1, r2 \in chatbot_configs :
           r1.user_id = r2.user_id /\ r1.chatbot_title = r2.chatbot_title => r1 = r2
    /\ last.op = "create_chatbot" /\ last.status = 200 =>
           \E r \in RowsOf(chatbot_configs, last.user_id, last.chatbot_title) :
               r.api_key = last.body.api_key

----------------------------------------------------------------------------
(* Claims about the token usage ledger *)

\* C8: no counter of a ledger row goes down between two successive states, under
\* any interleaving of update_tokens calls with non-negative amounts.
C8_CountersNeverDecrease ==
    [][\A r \in bot_token_usage : \E r2 \in bot_token_usage' :
           /\ r2.id = r.id /\ r2.user_id = r.user_id
           /\ r2.chatbot_title = r.chatbot_title
           /\ \A c \in TokenColumns : r2[c] >= r[c]]_vars

\* The update_tokens calls that returned success for the column c of row r.
Credited(r, c) ==
    {w \in Workers :
        /\ pc[w] = "done"
        /\ loc[w].fn = "update_tokens"
        /\ loc[w].success
        /\ loc[w].user_id = r.user_id
        /\ loc[w].chatbot_title = r.chatbot_title
        /\ OPERATION_COLUMNS(loc[w].operation_type) = c}

RECURSIVE SumTokens(_)
SumTokens(W) ==
    IF W = {} THEN 0
    ELSE LET w == CHOOSE x \in W : TRUE
         IN  loc[w].tokens_used + SumTokens(W \ {w})

\* C9: once all calls have returned, every counter of a bot's ledger row (the
\* bot having one row) equals its value before the calls (0: the row was created
\* by them) plus the tokens_used of the update_tokens calls that returned success
\* for it.
C9_LedgerIsAdditive ==
    (\A w \in Workers : pc[w] = "done") =>
        \A r \in bot_token_usage :
            RowsOf(bot_token_usage, r.user_id, r.chatbot_title) = {r} =>
                \A c \in TokenColumns : r[c] = SumTokens(Credited(r, c))

\* C10: there is at most one bot_token_usage row per (tenant, lower-cased title),
\* also when calls for a bot without a row interleave their check and insert.
C10_OneLedgerRowPerBot ==
    \A r1, r2 \in bot_token_usage :
        r1.user_id = r2.user_id /\ r1.chatbot_title = r2.chatbot_title => r1 = r2

----------------------------------------------------------------------------
(* Claims about the token_tracker functions, called one after the other *)

\* C11: initialize_bot_tokens returns success; called for a bot that has a ledger
\* row it leaves the whole table as it is, called for a bot without a row it adds
\* exactly one row, of that bot, with the five counters 0.
C11_InitializeIsIdempotent ==
    [][last'.op = "initialize_bot_tokens" =>
          /\ last'.body.success
          /\ IF RowsOf(bot_token_usage, last'.user_id, last'.chatbot_title) # {}
             THEN bot_token_usage' = bot_token_usage
             ELSE \E r \in bot_token_usage' :
                     /\ r \notin bot_token_usage
                     /\ bot_token_usage' = bot_token_usage \cup {r}
                     /\ r.user_id = last'.user_id
                     /\ r.chatbot_title = last'.chatbot_title
                     /\ \A c \in TokenColumns : r[c] = 0]_vars

\* initialize_bot_tokens has returned for a bot whose row holds tokens.
C11_Witness ==
    /\ last.op = "initialize_bot_tokens"
    /\ \E r \in RowsOf(bot_token_usage, last.user_id, last.chatbot_title) :
           RowTotal(r) > 0

\* C12: a successful update_tokens(tenant, bot, category, n) leaves one row for the
\* bot whose counter of that category is n on a fresh bot and the former value plus
\* n otherwise, returns that value as new_total, and changes no other counter of
\* the row and no other row.
C12_UpdateChangesOnlyItsCounter ==
    [][last'.op = "update_tokens" /\ last'.body.success =>
          LET column_name == OPERATION_COLUMNS(last'.body.operation)
              n == last'.body.tokens_added
              before == RowsOf(bot_token_usage, last'.user_id, last'.chatbot_title)
              after == RowsOf(bot_token_usage', last'.user_id, last'.chatbot_title)
          IN  /\ bot_token_usage' \ after = bot_token_usage \ before
              /\ \E r2 \in after :
                    /\ after = {r2}
                    /\ r2[column_name] = last'.body.new_total
                    /\ IF before = {}
                       THEN /\ r2[column_name] = n
                            /\ \A c \in TokenColumns \ {column_name} : r2[c] = 0
                       ELSE \E r \in before :
                               /\ before = {r}
                               /\ r2[column_name] = r[column_name] + n
                               /\ \A c \in TokenColumns \ {column_name} :
                                      r2[c] = r[c]]_vars

\* update_tokens has added tokens to a counter that held some, in a row with another
\* counter that holds tokens, while another bot has a row.
C12_Witness ==
    /\ last.op = "update_tokens"
    /\ last.body.success
    /\ last.body.previous_tokens > 0
    /\ last.body.tokens_added > 0
    /\ \E r \in RowsOf(bot_token_usage, last.user_id, last.chatbot_title) :
           /\ r[OPERATION_COLUMNS(last.body.operation)] = last.body.new_total
           /\ RowTotal(r) > last.body.new_total
    /\ \E r \in bot_token_usage : r.user_id # last.user_id /\ RowTotal(r) > 0

----------------------------------------------------------------------------
(* Claims about the tokens the routes charge *)

\* The value of a counter of the bot before a step (0 when it has no row yet).
CounterBefore(user_id, chatbot_title, column_name) ==
    IF RowsOf(bot_token_usage, user_id, chatbot_title) = {} THEN {0}
    ELSE {r[column_name] : r \in RowsOf(bot_token_usage, user_id, chatbot_title)}

\* C13: a successful ask raises the bot's ask_query counter by exactly the
\* completion_tokens the chat model reported for that call.
C13_AskChargesCompletionTokens ==
    [][last'.op = "ask" /\ last'.status = 200 =>
          \A r2 \in RowsOf(bot_token_usage', last'.user_id, last'.chatbot_title) :
              \E before \in CounterBefore(last'.user_id, last'.chatbot_title,
                                          "ask_query_tokens") :
                  r2.ask_query_tokens = before + last'.body.usage.completion_tokens]_vars

\* The ledger category of an ingestion route.
IngestCategory(op) ==
    CASE op = "docs_file" -> "file_upload"
      [] op = "docs_raw" -> "raw_text"
      [] op = "docs_qa" -> "qa_pairs"
      [] op = "crawl_fetch" -> "web_crawl"

RECURSIVE SumReported(_)
SumReported(blocks) ==
    IF blocks = <<>> THEN 0 ELSE Head(blocks).tokens_used + SumReported(Tail(blocks))

\* The tokens_used a successful ingestion response reports.
ReportedTokens(o) ==
    IF o.op = "crawl_fetch" THEN SumReported(o.body.indexed_blocks)
    ELSE o.body.tokens_used

\* C14: an ingestion request that indexed content for a bot completes successfully,
\* reports chunks_indexed and tokens_used, and the bot's counter of the route's
\* category has grown by the reported tokens_used while its other counters are
\* unchanged.
C14_IngestReportsAndChargesTokens ==
    [][last'.op \in IngestOps /\ last'.upsert_calls > 0 /\ vectors' # vectors =>
          LET column_name == OPERATION_COLUMNS(IngestCategory(last'.op))
          IN  /\ last'.status = 200
              /\ RowsOf(bot_token_usage', last'.user_id, last'.chatbot_title) # {}
              /\ \A r2 \in RowsOf(bot_token_usage', last'.user_id, last'.chatbot_title) :
                    /\ \E before \in CounterBefore(last'.user_id, last'.chatbot_title,
                                                   column_name) :
                           r2[column_name] = before + ReportedTokens(last')
                    /\ \A c \in TokenColumns \ {column_name} :
                           \E before \in CounterBefore(last'.user_id,
                                                       last'.chatbot_title, c) :
                               r2[c] = before]_vars

----------------------------------------------------------------------------
(* Claims about the order and the failures of an ingestion call *)

\* The ingestion that led to `o` failed upstream after at least one embedding call
\* of it had succeeded.
FailedAfterSpending(o) ==
    /\ o.op \in IngestOps
    /\ \/ o.detail = "UpstreamError: upsert" /\ o.embed_calls >= 1
       \/ o.detail = "UpstreamError: embedding" /\ o.embed_calls >= 2

\* C16: when an ingestion fails upstream after earlier embedding calls of it spent
\* tokens, the cost incurred is added to the bot's counter of the route's category.
C16_SpentTokensChargedOnFailure ==
    [][FailedAfterSpending(last') =>
          LET column_name == OPERATION_COLUMNS(IngestCategory(last'.op))
          IN  \E r2 \in RowsOf(bot_token_usage', last'.user_id, last'.chatbot_title) :
                  \E before \in CounterBefore(last'.user_id, last'.chatbot_title,
                                              column_name) :
                      r2[column_name] > before]_vars

\* The calls of the ingestion functions.
ProcessOps == {"process_and_index_data", "docs"}

\* C15: within one ingestion call the upsert happens only after the embedding call
\* of every chunk succeeded; when an embedding call fails nothing is upserted and
\* the stored records are unchanged.
C15_UpsertOnlyAfterAllEmbeddings ==
    [][last'.op \in ProcessOps =>
          /\ last'.detail = "UpstreamError: embedding" =>
                 last'.upsert_calls = 0 /\ vectors' = vectors
          /\ last'.upsert_calls > 0 =>
                 last'.embed_calls = Len(last'.body.chunks)]_vars

\* The second embedding call of an ingestion failed while records were stored.
C15_Witness ==
    /\ last.op = "process_and_index_data"
    /\ last.detail = "UpstreamError: embedding"
    /\ last.embed_calls = 2
    /\ Len(last.body.chunks) = 2
    /\ vectors # {}

\* The arguments `b` carry a file with an extension outside {pdf, docx, txt}.
UnsupportedFile(b) ==
    /\ b.file_bytes.len > 0
    /\ b.filename # NoName
    /\ LowerWord(b.filename[Len(b.filename)]) \notin {"pdf", "docx", "txt"}

\* The arguments `b` carry a qa_json that is not a list of {question, answer} objects.
MalformedQa(b) ==
    \/ b.qa_json.kind \in {"bad_string", "dict"}
    \/ /\ b.qa_json.kind \in {"list", "string"}
       /\ \E k \in DOMAIN b.qa_json.items :
              \/ ~b.qa_json.items[k].is_dict
              \/ ~({"question", "answer"} \subseteq b.qa_json.items[k].keys)

\* The arguments `b` carry nothing to index.
NoUsableInput(b) ==
    /\ b.file_bytes.len = 0 \/ b.filename = NoName
    /\ b.raw_text.len = 0
    /\ \A k \in DOMAIN b.qa_json.items :
           \/ StrStrip(b.qa_json.items[k].question) = <<>>
           \/ StrStrip(b.qa_json.items[k].answer) = <<>>

\* C17: a call with no usable input, a malformed QA list or an unsupported file
\* extension fails with an error after no embedding call and no upsert, also when
\* it carries other valid inputs.
C17_InvalidInputRejectedBeforePaidCalls ==
    [][/\ last'.op = "process_and_index_data"
       /\ UnsupportedFile(last'.body) \/ MalformedQa(last'.body)
              \/ NoUsableInput(last'.body)
       => /\ last'.detail # "none"
          /\ last'.embed_calls = 0
          /\ last'.upsert_calls = 0
          /\ vectors' = vectors]_vars

\* A call with raw text and a malformed QA list was rejected while records were stored.
C17_Witness ==
    /\ last.op = "process_and_index_data"
    /\ MalformedQa(last.body)
    /\ last.body.raw_text.len > 0
    /\ last.detail = "ValueError: qa_json must be a list of {question, answer} objects"
    /\ last.embed_calls = 0
    /\ vectors # {}

\* The call that led to `o` carried QA pairs only, all of them {question, answer}
\* objects, and returned.
QaOnlyCall(o) ==
    /\ o.op = "process_and_index_data"
    /\ o.detail = "none"
    /\ o.body.file_bytes.len = 0
    /\ o.body.raw_text.len = 0
    /\ o.body.qa_json.kind \in {"list", "string"}
    /\ ~MalformedQa(o.body)

\* The chunk of one QA pair.
QaChunkOf(pair) ==
    [text |-> [q |-> StrStrip(pair.question), a |-> StrStrip(pair.answer)],
     source |-> <<"qa_json">>]

\* C18 as stated: a QA list of N valid {question, answer} pairs yields exactly N
\* chunks (chunks_indexed = N), one per pair in input order, tagged "qa_json".
C18_EveryValidPairIsAChunk ==
    [][QaOnlyCall(last') =>
          LET items == last'.body.qa_json.items
          IN  /\ last'.body.result.chunks_indexed = Len(items)
              /\ last'.body.chunks = [k \in 1..Len(items) |-> QaChunkOf(items[k])]]_vars

\* The pair has a question and an answer that are not blank.
NotBlank(pair) == StrStrip(pair.question) # <<>> /\ StrStrip(pair.answer) # <<>>

\* C18 amended: a QA list of valid pairs yields one chunk per pair whose question and
\* answer are both non-blank after stripping, in input order, tagged "qa_json" and
\* made of the stripped question and answer; chunks_indexed is their number, and
\* pairs with a blank question or answer are skipped.
C18_EveryNonBlankPairIsAChunk ==
    [][QaOnlyCall(last') =>
          LET items == SelectSeq(last'.body.qa_json.items, NotBlank)
          IN  /\ last'.body.result.chunks_indexed = Len(items)
              /\ last'.body.chunks = [k \in 1..Len(items) |-> QaChunkOf(items[k])]]_vars

\* A QA list with two non-blank pairs around a blank one was indexed.
C18_Witness ==
    /\ QaOnlyCall(last)
    /\ Len(last.body.qa_json.items) = 3
    /\ last.body.result.chunks_indexed = 2
    /\ last.upsert_calls = 1

\* C19: a successful ingestion overwrites no stored record: afterwards every former
\* record is still stored and the number of records has grown by chunks_indexed,
\* through process_and_index_data and through the legacy process_and_index_pdf.
C19_IngestionNeverOverwrites ==
    [][last'.op \in ProcessOps /\ last'.detail = "none" =>
          /\ vectors \subseteq vectors'
          /\ Cardinality(vectors') =
                 Cardinality(vectors) + last'.body.result.chunks_indexed]_vars

----------------------------------------------------------------------------
(* Claims about flush_namespace *)

\* C20: a flush for a tenant whose container does not exist is answered with
\* HTTP 404 (not found) and makes no delete call on the vector index.
C20_FlushWithoutContainerIsNotFound ==
    [][last'.op = "flush" /\ IndexName(last'.user_id) \notin indexes =>
          /\ last'.status = 404
          /\ last'.delete_calls = 0
          /\ vectors' = vectors]_vars

\* C21: a successful flush of (tenant, bot) removes every record under the bot's
\* namespace and nothing else: the other namespaces of the tenant, the containers
\* of the other tenants, the set of containers, the ledger and chatbot_configs are
\* unchanged.
C21_FlushRemovesOnlyOwnNamespace ==
    [][last'.op = "flush" /\ last'.status = 200 =>
          /\ NamespaceVectors(vectors', IndexName(last'.user_id),
                              Namespace(last'.chatbot_title)) = {}
          /\ vectors' = vectors \ BotVectors(last')
          /\ indexes' = indexes
          /\ bot_token_usage' = bot_token_usage
          /\ chatbot_configs' = chatbot_configs]_vars

\* A flush has just deleted records of a bot that has a ledger row with tokens,
\* while another namespace of the tenant and another tenant's container hold records.
C21_Witness ==
    /\ last.op = "flush"
    /\ last.status = 200
    /\ last.deleted > 0
    /\ \E v \in vectors : v.index = IndexName(last.user_id)
    /\ \E v \in vectors : v.index # IndexName(last.user_id)
    /\ \E r \in RowsOf(bot_token_usage, last.user_id, last.chatbot_title) :
           RowTotal(r) > 0

----------------------------------------------------------------------------
(* Claims about the gates of the routes *)

\* C22: an ask whose api key matches no active chatbot_configs row is answered with
\* HTTP 401 before any embedding or chat call, and leaves the ledger unchanged.
C22_UnknownKeyRejectedBeforeAnyCall ==
    [][/\ last'.op = "ask"
       /\ ~\E r \in chatbot_configs : r.api_key = last'.body.api_key /\ r.is_active
       => /\ last'.status = 401
          /\ last'.embed_calls = 0
          /\ last'.chat_calls = 0
          /\ last'.context = NoPrompt
          /\ bot_token_usage' = bot_token_usage]_vars

\* An ask with an unknown key was rejected while bots and ledger rows exist.
C22_Witness ==
    /\ last.op = "ask"
    /\ last.status = 401
    /\ last.body.api_key = BadKey
    /\ chatbot_configs # {}
    /\ bot_token_usage # {}

----------------------------------------------------------------------------
(* app/main.py: POST /ask, the streamed answer *)

MaxFragments == 3

\* INDEX_NAME of app/main.py: one index for every caller, queried without namespace
MainIndexName == <<"snobbots-index">>

\* chunk.choices[0].delta.content of one chunk of the stream; "" stands for a chunk
\* without text (the role chunk at the start, the finish chunk at the end).
Deltas == {"", "a", "b"}

\* The chunks the chat service sends for one call.
StreamChunks == UNION {[1..n -> Deltas] : n \in 0..MaxFragments}

\* What the services answer during one streamed query; usage is what the chat
\* service accounts for the call.
StreamEnvs(vecs) ==
    [fail : {"none", "embedding", "chat"},
     matches : Rankings(NamespaceVectors(vecs, MainIndexName, <<>>), TopK),
     chunks : StreamChunks,
     usage : ChatUsages]

\* ask starts to drain generate_response(query): the embedding, the index query and
\* the chat call with stream=True run when the first fragment is asked for.
StreamAsk(w, query) ==
    /\ pc[w] = "idle"
    /\ \E env \in StreamEnvs(vectors) :
           LET top_chunks == [i \in DOMAIN env.matches |-> env.matches[i].chunk_text]
           IN  IF env.fail = "embedding"
               THEN /\ last' = [Outcome("stream_ask", <<>>, <<>>, 500,
                                        "UpstreamError: embedding")
                                  EXCEPT !.embed_calls = 1]
                    /\ UNCHANGED <<pc, loc>>
               ELSE IF env.fail = "chat"
               THEN /\ last' = [Outcome("stream_ask", <<>>, <<>>, 500,
                                        "UpstreamError: chat")
                                  EXCEPT !.embed_calls = 1, !.chat_calls = 1,
                                         !.context = Context(top_chunks)]
                    /\ UNCHANGED <<pc, loc>>
               ELSE /\ pc' = [pc EXCEPT ![w] = "stream"]
                    /\ loc' = [loc EXCEPT ![w] = [query |-> query,
                                                  context |-> Context(top_chunks),
                                                  stream |-> env.chunks,
                                                  usage |-> env.usage,
                                                  at |-> 0,
                                                  yielded |-> <<>>]]
                    /\ UNCHANGED last
    /\ UNCHANGED <<chatbot_configs, bot_token_usage, indexes, vectors>>

\* for chunk in stream: if chunk.choices[0].delta.content: yield it
StreamNext(w) ==
    /\ pc[w] = "stream"
    /\ loc[w].at < Len(loc[w].stream)
    /\ LET content == loc[w].stream[loc[w].at + 1]
       IN  loc' = [loc EXCEPT ![w].at = @ + 1,
                              ![w].yielded = IF content # "" THEN Append(@, content)
                                             ELSE @]
    /\ UNCHANGED <<chatbot_configs, bot_token_usage, indexes, vectors, pc, last>>

\* The stream is exhausted: ask joins the fragments and answers {"answer": full_text}.
\* Each fragment is one character here, so the joined text is the fragments in a row.
StreamReturn(w) ==
    /\ pc[w] = "stream"
    /\ loc[w].at = Len(loc[w].stream)
    /\ last' = [Outcome("stream_ask", <<>>, <<>>, 200, "")
                  EXCEPT !.embed_calls = 1, !.chat_calls = 1,
                         !.context = loc[w].context,
                         !.body = [answer |-> loc[w].yielded]]
    /\ pc' = [pc EXCEPT ![w] = "idle"]
    /\ loc' = [loc EXCEPT ![w] = <<>>]
    /\ UNCHANGED <<chatbot_configs, bot_token_usage, indexes, vectors>>

\* ask is a coroutine that never awaits: the event loop runs one ask at a time.
NextStream ==
    \/ \E query \in Queries : StreamAsk(1, query)
    \/ StreamNext(1)
    \/ StreamReturn(1)

SpecStream == Init /\ [][NextStream]_vars

\* C23: the streamed answer yields the chat model's text fragments in order and,
\* once the stream is complete, the caller holds the usage of that chat call
\* (prompt, completion and total tokens).
C23_StreamYieldsInOrderAndExposesUsage ==
    [][\A w \in Workers :
           /\ pc[w] = "stream" /\ pc'[w] = "stream" =>
                  loc'[w].yielded = SelectSeq(SubSeq(loc[w].stream, 1, loc'[w].at),
                                              LAMBDA d : d # "")
           /\ pc[w] = "stream" /\ pc'[w] = "idle" =>
                  /\ last'.body.answer = SelectSeq(loc[w].stream, LAMBDA d : d # "")
                  /\ "usage" \in DOMAIN last'.body
                  /\ last'.body.usage = loc[w].usage]_vars

----------------------------------------------------------------------------
(* The namespace of a bot, as each code path derives it from the title it is given *)

MaxTitleLen == 3

\* The titles a client can send: upper and lower case letters, blanks, tabs, "_"
TitleChars == {"A", "a", "b", " ", "\t", "_"}
AnyTitles == UNION {[1..n -> TitleChars] : n \in 0..MaxTitleLen}

\* The ingest routes lower the title and hand it to process_and_index_data.
IngestNamespace(chatbot_title) == Namespace(StrLower(chatbot_title))

\* ask lowers the title of the key's row and hands it to generate_response.
QueryNamespace(chatbot_title) == Namespace(StrLower(chatbot_title))

\* flush_namespace lowers the title and derives the namespace itself.
FlushNamespace(chatbot_title) == FlushNamespaceOf(StrLower(chatbot_title))

\* The namespaces derived from one title; `last` keeps the title and the results.
DeriveNamespace(chatbot_title) ==
    /\ last' = [Outcome("derive_namespace", <<>>, chatbot_title, 0, "")
                  EXCEPT !.body = [namespace |-> Namespace(chatbot_title),
                                   again |-> Namespace(Namespace(chatbot_title)),
                                   ingest |-> IngestNamespace(chatbot_title),
                                   query |-> QueryNamespace(chatbot_title),
                                   flush |-> FlushNamespace(chatbot_title)]]
    /\ UNCHANGED <<chatbot_configs, bot_token_usage, indexes, vectors, pc, loc>>

NextNamespace == \E chatbot_title \in AnyTitles : DeriveNamespace(chatbot_title)

SpecNamespace == Init /\ [][NextNamespace]_vars

\* Two characters that are the same letter in either case, or the same character.
SameLetter(c, d) == c = d \/ {c, d} = {"A", "a"} \/ {c, d} = {"B", "b"}

\* Two titles that differ at most in letter case.
SameButCase(s, t) ==
    Len(s) = Len(t) /\ \A i \in 1..Len(s) : SameLetter(s[i], t[i])

\* C24: the namespace derivation is idempotent and case-insensitive, and the
\* ingestion, query and flush paths derive the same namespace from the same title.
C24_NamespaceIdempotentCaseInsensitive ==
    last.op = "derive_namespace" =>
        /\ last.body.again = last.body.namespace
        /\ \A t \in AnyTitles :
               SameButCase(t, last.chatbot_title) => Namespace(t) = last.body.namespace
        /\ last.body.ingest = last.body.namespace
        /\ last.body.query = last.body.namespace
        /\ last.body.flush = last.body.namespace

\* "A b" was derived: upper case, and a blank inside the title
C24_Witness ==
    /\ last.op = "derive_namespace"
    /\ last.chatbot_title = <<"A", " ", "b">>
    /\ last.body.namespace = <<"a", "_", "b">>
    /\ last.body.flush = <<"a", "_", "b">>

----------------------------------------------------------------------------
(* app/RAG/pdf_processor.py: process_and_index_data, step by step *)
(* The ingest routes are plain functions: their calls run side by side in threads. *)

\* pc.create_index(name) for a name that exists: the service answers 409
AlreadyExists == "PineconeApiException: 409 ALREADY_EXISTS"

\* names = pc.list_indexes().names(), for a call with a raw text
PiList(w, user_id, raw_text, chatbot_title) ==
    /\ pc[w] = "idle"
    /\ pc' = [pc EXCEPT ![w] = "pi_listed"]
    /\ loc' = [loc EXCEPT ![w] = [user_id |-> user_id, raw_text |-> raw_text,
                                  chatbot_title |-> chatbot_title, names |-> indexes]]
    /\ UNCHANGED <<chatbot_configs, bot_token_usage, indexes, vectors, last>>

\* if INDEX_NAME not in names: pc.create_index(name=INDEX_NAME, ...)
PiCreate(w) ==
    /\ pc[w] = "pi_listed"
    /\ LET INDEX_NAME == IndexName(loc[w].user_id)
       IN  IF INDEX_NAME \in loc[w].names
           THEN /\ pc' = [pc EXCEPT ![w] = "pi_ensured"]
                /\ UNCHANGED <<indexes, loc, last>>
           ELSE IF INDEX_NAME \in indexes
           THEN /\ last' = Outcome("process_and_index_data", loc[w].user_id,
                                   loc[w].chatbot_title, 0, AlreadyExists)
                /\ pc' = [pc EXCEPT ![w] = "idle"]
                /\ loc' = [loc EXCEPT ![w] = <<>>]
                /\ UNCHANGED indexes
           ELSE /\ indexes' = indexes \cup {INDEX_NAME}
                /\ pc' = [pc EXCEPT ![w] = "pi_ensured"]
                /\ UNCHANGED <<loc, last>>
    /\ UNCHANGED <<chatbot_configs, bot_token_usage, vectors>>

\* The rest of the call: the inputs are checked, the chunks embedded and upserted.
PiRest(w) ==
    /\ pc[w] = "pi_ensured"
    /\ LET l == loc[w]
           n == ChunkCount(NoName, NoText, l.raw_text, NoQa, NoName)
           stored == NamespaceVectors(vectors, IndexName(l.user_id),
                                      Namespace(l.chatbot_title))
       IN  \E env \in IngestEnvs(stored, n) :
               LET r == process_and_index_data(indexes, vectors, l.user_id, NoName,
                            NoText, l.raw_text, NoQa, NoName, l.chatbot_title, env)
               IN  /\ indexes' = r.indexes
                   /\ vectors' = r.vectors
                   /\ Cardinality(vectors') <= MaxVectors
                   /\ last' = [Outcome("process_and_index_data", l.user_id,
                                       l.chatbot_title, 0, r.raised)
                                 EXCEPT !.embed_calls = r.embed_calls,
                                        !.upsert_calls = r.upsert_calls]
    /\ pc' = [pc EXCEPT ![w] = "idle"]
    /\ loc' = [loc EXCEPT ![w] = <<>>]
    /\ UNCHANGED <<chatbot_configs, bot_token_usage>>

NextEnsure ==
    \E w \in {1, 2} :
        \/ \E u \in Users, n \in ShortLens :
               PiList(w, u, [doc |-> <<"r">>, len |-> n], <<"b">>)
        \/ PiCreate(w)
        \/ PiRest(w)

SpecEnsure == Init /\ [][NextEnsure]_vars

\* C25: container provisioning is idempotent: after any ingestion calls of a tenant,
\* also two first calls that interleave between the existence check and the create,
\* the tenant has its one container, and no call fails because the container exists.
C25_EnsureContainerIsIdempotent ==
    last.op = "process_and_index_data" =>
        /\ IndexName(last.user_id) \in indexes
        /\ last.detail # AlreadyExists

----------------------------------------------------------------------------
(* app/RAG/token_tracker.py: get_user_total_tokens; app/RAG/routes.py: /all-chatbots *)

\* Mutant: the select is not narrowed to the tenant.
LedgerRowsOfAll(table, user_id) == table

\* supabase.table("bot_token_usage").select(...).eq("user_id", user_id)
LedgerRowsOf(table, user_id) == {r \in table : r.user_id = user_id}

RECURSIVE SumRowTotals(_)
SumRowTotals(rows) ==
    IF rows = {} THEN 0
    ELSE LET r == CHOOSE x \in rows : TRUE
         IN  RowTotal(r) + SumRowTotals(rows \ {r})

\* The operations dictionary built from one row
Operations(row) ==
    [file_upload |-> row.file_upload_tokens, raw_text |-> row.raw_text_tokens,
     qa_pairs |-> row.qa_pairs_tokens, web_crawl |-> row.web_crawl_tokens,
     ask_query |-> row.ask_query_tokens]

\* The orders the rows of a select can come in, as far as they show in bots[...]:
\* for each title, the row that comes last and so stays in the dictionary.
LastRows(rows) ==
    LET titles == {r.chatbot_title : r \in rows}
    IN  {f \in [titles -> rows] : \A t \in titles : f[t].chatbot_title = t}

\* get_user_total_tokens(user_id), given the table and the order of result.data
get_user_total_tokens(table, user_id, last_row) ==
    [user_id |-> user_id,
     bots |-> [t \in DOMAIN last_row |->
                  [operations |-> Operations(last_row[t]),
                   total |-> RowTotal(last_row[t])]],
     total_tokens_all_bots |-> SumRowTotals(LedgerRowsOf(table, user_id))]

\* A call of get_user_total_tokens; `last` keeps what it returned.
GetUserTotalTokens(user_id) ==
    /\ \E last_row \in LastRows(LedgerRowsOf(bot_token_usage, user_id)) :
           last' = [Outcome("get_user_total_tokens", user_id, <<>>, 0, "")
                      EXCEPT !.body = get_user_total_tokens(bot_token_usage, user_id,
                                                            last_row)]
    /\ UNCHANGED <<chatbot_configs, bot_token_usage, indexes, vectors, pc, loc>>

\* token_summary.get("details", []): the list under the key "details", if there is one
SummaryDetails(token_summary) ==
    IF "details" \in DOMAIN token_summary THEN token_summary.details ELSE {}

\* {item["chatbot_title"]: item["total_tokens"] for item in token_data}
TokenMap(token_data) ==
    [t \in {item.chatbot_title : item \in token_data} |->
        (CHOOSE item \in token_data : item.chatbot_title = t).total_tokens]

\* GET /rag/all-chatbots
GetUserChatbots(user_id) ==
    LET chatbots == TenantRows(chatbot_configs, user_id)
    IN  /\ IF chatbots = {}
           THEN last' = [Outcome("all_chatbots", user_id, <<>>, 200, "")
                           EXCEPT !.body = [total_count |-> 0, chatbots |-> {}]]
           ELSE \E last_row \in LastRows(LedgerRowsOf(bot_token_usage, user_id)) :
                LET token_summary == get_user_total_tokens(bot_token_usage, user_id,
                                                           last_row)
                    token_map == TokenMap(SummaryDetails(token_summary))
                    chatbot_list ==
                        {[chatbot_title |-> bot.chatbot_title, api_key |-> bot.api_key,
                          is_active |-> bot.is_active,
                          total_tokens_used |->
                              IF bot.chatbot_title \in DOMAIN token_map
                              THEN token_map[bot.chatbot_title] ELSE 0]
                            : bot \in chatbots}
                IN  last' = [Outcome("all_chatbots", user_id, <<>>, 200, "")
                               EXCEPT !.body = [total_count |-> Cardinality(chatbot_list),
                                                chatbots |-> chatbot_list]]
        /\ UNCHANGED <<chatbot_configs, bot_token_usage, indexes, vectors, pc, loc>>

\* Two bots of one tenant and a bot of another; tokens are spent in two categories.
TotalsBots == {<<<<"u", "1">>, <<"b">>>>, <<<<"u", "1">>, <<"c">>>>, <<<<"u", "2">>, <<"b">>>>}

NextTotals ==
    \/ \E b \in TotalsBots : CreateChatbot(b[1], b[2])
    \/ \E b \in TotalsBots, o \in LedgerOps, n \in {2} :
           UpdateTokens(b[1], b[2], o, n)
    \/ \E user_id \in Users : GetUserTotalTokens(user_id)
    \/ \E user_id \in Users : GetUserChatbots(user_id)

SpecTotals == Init /\ [][NextTotals]_vars

\* C26: get_user_total_tokens(tenant) returns a total equal to the sum of the five
\* counters over all ledger rows of the tenant, for each bot of the tenant the
\* counters and the sum of the counters of the bot's row, and nothing of a row of
\* another tenant.
C26_UserTotalIsSumOfOwnRows ==
    last.op = "get_user_total_tokens" =>
        LET rows == {r \in bot_token_usage : r.user_id = last.user_id}
            bots == last.body.bots
        IN  /\ last.body.total_tokens_all_bots = SumRowTotals(rows)
            /\ DOMAIN bots = {r.chatbot_title : r \in rows}
            /\ \A t \in DOMAIN bots :
                   \E r \in RowsOf(bot_token_usage, last.user_id, t) :
                       /\ bots[t].total = RowTotal(r)
                       /\ bots[t].operations.raw_text = r.raw_text_tokens
                       /\ bots[t].operations.ask_query = r.ask_query_tokens
                       /\ bots[t].operations.file_upload = r.file_upload_tokens
                       /\ bots[t].operations.qa_pairs = r.qa_pairs_tokens
                       /\ bots[t].operations.web_crawl = r.web_crawl_tokens

\* The totals of a tenant with two bots of different totals, while another tenant
\* has spent tokens too.
C26_Witness ==
    /\ last.op = "get_user_total_tokens"
    /\ DOMAIN last.body.bots = {<<"b">>, <<"c">>}
    /\ last.body.bots[<<"b">>].total > last.body.bots[<<"c">>].total
    /\ last.body.bots[<<"c">>].total > 0
    /\ \E r \in bot_token_usage : r.user_id # last.user_id /\ RowTotal(r) > 0

\* C29: /all-chatbots attaches to each bot total_tokens_used, the sum of the bot's
\* five ledger counters; it is not zero when the bot has recorded tokens.
C29_ListingCarriesBotTotals ==
    last.op = "all_chatbots" =>
        \A bot \in last.body.chatbots :
            \A r \in RowsOf(bot_token_usage, last.user_id, bot.chatbot_title) :
                bot.total_tokens_used = RowTotal(r)

----------------------------------------------------------------------------
(* Claims about what a refused ingestion leaves behind *)

\* C27: a call of process_and_index_data that is rejected for a missing
\* chatbot_title, no usable input, a malformed QA list or an unsupported file
\* extension leaves the set of containers and every namespace as they were.
C27_RejectedIngestionChangesNothing ==
    [][/\ last'.op = "process_and_index_data"
       /\ \/ last'.chatbot_title = <<>>
          \/ UnsupportedFile(last'.body)
          \/ MalformedQa(last'.body)
          \/ NoUsableInput(last'.body)
       => /\ indexes' = indexes
          /\ vectors' = vectors]_vars

\* C28: the four ingest routes go on to process_and_index_data only when the
\* (tenant, lower-cased title) has an active chatbot_configs row; otherwise the answer
\* is HTTP 403 and no container is created, nothing is embedded, nothing upserted.
C28_IngestionGatedOnActiveBot ==
    [][last'.op \in IngestOps =>
          IF ~\E r \in chatbot_configs :
                  /\ r.user_id = last'.user_id
                  /\ r.chatbot_title = StrLower(last'.chatbot_title)
                  /\ r.is_active
          THEN /\ last'.status = 403
               /\ last'.embed_calls = 0
               /\ last'.upsert_calls = 0
               /\ indexes' = indexes
               /\ vectors' = vectors
               /\ bot_token_usage' = bot_token_usage
          ELSE last'.status # 403]_vars

\* An ingestion was refused for a tenant without the bot, while another tenant has
\* a bot of that title with records stored.
C28_Witness ==
    /\ last.op \in IngestOps
    /\ last.status = 403
    /\ \E r \in chatbot_configs :
           r.chatbot_title = StrLower(last.chatbot_title) /\ r.user_id # last.user_id
    /\ vectors # {}
    /\ IndexName(last.user_id) \notin indexes

----------------------------------------------------------------------------
(* app/helpers/response_helper.py, app/helpers/supabase_helper.py,
   app/auth/auth_service.py, app/auth/auth_routes.py: POST /auth/update-password *)

\* success_response(data, message, code); `data or {}`: <<>> stands for {} and None
success_response(data, message, code) ==
    [success |-> TRUE, message |-> message, code |-> code, data |-> data,
     errors |-> <<>>]

\* error_response(message, code)
error_response(message, code) ==
    [success |-> FALSE, message |-> message, code |-> code, data |-> <<>>,
     errors |-> <<>>]

\* handle_supabase_error(response, default_error); a response is what the auth
\* service handed back: its error attribute, its data attribute, its user.
handle_supabase_error(response, default_error) ==
    IF response.error # ""
    THEN error_response(response.error, "SUPABASE_ERROR")
    ELSE IF response.data = <<>>
    THEN error_response(default_error, "SUPABASE_NO_DATA")
    ELSE success_response(response.data, "Supabase request successful", "SUCCESS")

\* What the auth service does with one request: set_session gives a session with a
\* user ("ok", for tokens of a reset link only), one without ("none"), or raises;
\* update_user raises or answers; the answer has a user or not, data or not.
PasswordEnvs(access_token, refresh_token) ==
    [session : IF access_token = "valid" /\ refresh_token = "valid"
               THEN {"ok", "raise"} ELSE {"none", "raise"},
     update : {"answer", "raise"},
     response : [error : {""}, data : {<<>>, <<"user">>}, user : {<<>>, <<"user">>}]]

\* update_user_password: what it returns, and whether the password was changed
\* (update_user answered with the user).
update_user_password(access_token, refresh_token, new_password, env) ==
    LET failed == error_response("Failed to update password", "PASSWORD_UPDATE_FAILED")
        result == handle_supabase_error(env.response, "Failed to update password")
    IN  IF env.session = "raise"
        THEN [returned |-> error_response("set_session", "PASSWORD_UPDATE_ERROR"),
              updated |-> FALSE]
        ELSE IF env.session = "none"
        THEN [returned |-> error_response("Invalid or expired tokens", "INVALID_SESSION"),
              updated |-> FALSE]
        ELSE IF env.update = "raise"
        THEN [returned |-> error_response("update_user", "PASSWORD_UPDATE_ERROR"),
              updated |-> FALSE]
        ELSE [returned |-> IF ~result.success \/ env.response.user = <<>>
                           THEN failed
                           ELSE success_response("Password updated successfully",
                                                 "Success", "SUCCESS"),
              updated |-> env.response.user # <<>>]

\* The requests: four passwords (of six characters or more), tokens of three kinds.
Passwords == {"secret1", "secret2", "secret3", "secret4"}
ResetTokens == {"valid", "expired", "garbled"}

\* POST /auth/update-password; `last` keeps the request, what the service returned
\* (called: the route got as far as the service) and the response.
UpdatePassword(access_token, refresh_token, password, confirm_password) ==
    LET request == [access_token |-> access_token, refresh_token |-> refresh_token,
                    password |-> password, confirm_password |-> confirm_password]
        o(status, detail, called, service, updated, success) ==
            [Outcome("update_password", <<>>, <<>>, status, detail)
                EXCEPT !.body = [request |-> request, called |-> called,
                                 service |-> service, updated |-> updated,
                                 success |-> success]]
    IN  /\ IF password # confirm_password
           THEN last' = o(400, "Passwords do not match", FALSE, <<>>, FALSE, FALSE)
           ELSE \E env \in PasswordEnvs(access_token, refresh_token) :
                LET r == update_user_password(access_token, refresh_token, password, env)
                    result == r.returned
                IN  IF "error" \in DOMAIN result
                    THEN last' = o(400, result.error, TRUE, result, r.updated, FALSE)
                    ELSE last' = o(200, "Password updated successfully", TRUE, result,
                                   r.updated, TRUE)
        /\ UNCHANGED <<chatbot_configs, bot_token_usage, indexes, vectors, pc, loc>>

NextPassword ==
    \E access_token \in ResetTokens, refresh_token \in {"valid", "garbled"} :
        \E password, confirm_password \in Passwords :
            UpdatePassword(access_token, refresh_token, password, confirm_password)

SpecPassword == Init /\ [][NextPassword]_vars

\* C30: /auth/update-password answers success only when update_user_password
\* updated the password: when the service returns an error response (invalid or
\* expired tokens, a failed update, an exception) the route answers HTTP 400 and
\* never success = true.
C30_ServiceErrorIsAnswered400 ==
    last.op = "update_password" /\ last.body.called =>
        /\ ~last.body.service.success => last.status = 400 /\ ~last.body.success
        /\ last.body.success => last.body.updated

=============================================================================
